---- MODULE Spec2Model ----
(***************************************************************************)
(* Work-item queue adapters (SQLite, Redis, DocumentDB) of                 *)
(* robocorp_adapters_custom, as one state machine.                         *)
(*                                                                         *)
(* One adapter instance serves the input queue queue_name; its outputs go  *)
(* to output_queue_name.  Several workers call into the adapter            *)
(* concurrently.  A SQL statement, a Redis command and a MongoDB command   *)
(* are each atomic; an operation made of several of them is modelled one   *)
(* command per step, with the worker's position in pc and its local        *)
(* variables in loc, so that other workers interleave between commands.    *)
(*                                                                         *)
(* Time is a logical clock `now`; CURRENT_TIMESTAMP and datetime.utcnow()  *)
(* read it.  The clock need not advance between two operations, so two     *)
(* items can carry the same created_at (CURRENT_TIMESTAMP has a resolution *)
(* of one second).  The clock counts minutes and advances in steps of      *)
(* TickMinutes, longer than the orphan timeout: what was reserved before   *)
(* the latest step is an orphan, what was reserved since is not.           *)
(***************************************************************************)
EXTENDS Integers, Sequences, FiniteSets, TLC

\* ------------------------------------------------------------------ bounds
MaxItems == 3
MaxTicks == 1
TickMinutes == 31
MaxCalls == 5
MaxSequentialCalls == 4
MaxRecoverCalls == 8
MaxPayloadCalls == 4
MaxSaveCalls == 4
MaxFileCalls == 4
MaxSetupCalls == 3

\* ------------------------------------------------------- program constants
PENDING == "PENDING"
RESERVED == "RESERVED"
COMPLETED == "COMPLETED"
FAILED == "FAILED"

\* Python None / SQL NULL / an absent hash field, for string values
None == "None"
\* SQL NULL / an absent field, for timestamps (the clock starts at 1)
NullTime == 0

queue_name == "Q"
\* a variant of the output queue's name: the input queue's
same_queue_name == queue_name
\* f"{queue_name}_output"
output_queue_name == "Q_output"
Queues == {queue_name, output_queue_name}
\* the queue of another adapter that works on the same database
foreign_queue_name == "R"
\* the queues the database holds items of
StoredQueues == Queues \cup {foreign_queue_name}

orphan_timeout_minutes == 30

Backends == {"sqlite", "redis", "docdb"}
Workers == {"w1", "w2"}
\* the worker of a run in which one process calls the adapter
Caller == "w1"

\* uuid4(): ids are fresh; the model hands them out from a counter
Ids == 1..MaxItems
\* an id that uuid4() never returned: it names no item of any queue
UnknownId == MaxItems + 1
ItemIds == Ids \cup {UnknownId}

\* ------------------------------------------------- arguments of the calls
\* release_input(state=...): State.DONE, State.FAILED, or anything else
ReleaseStates == {COMPLETED, FAILED, PENDING}
\* the two states release_input accepts
DoneStates == {COMPLETED, FAILED}

\* release_input(exception=...): None, a dict without "message", a full dict
ExcNone == [none |-> TRUE, type |-> None, code |-> None, message |-> None]
ExcNoMessage == [none |-> FALSE, type |-> "ValueError", code |-> None, message |-> None]
ExcFull == [none |-> FALSE, type |-> "ValueError", code |-> None, message |-> "bad"]
ExceptionArgs == {ExcNone, ExcNoMessage, ExcFull}
\* None or a full dict
ExceptionDicts == {ExcNone, ExcFull}

\* Python truthiness of the exception argument: None and {} are falsy
Truthy(exception) ==
    /\ ~exception.none
    /\ \/ exception.type # None
       \/ exception.code # None
       \/ exception.message # None

\* exception.get(key): None when the key is absent
DictGet(exception, key) == IF exception.none THEN None ELSE exception[key]

\* exception.get(key, default)
DictGetDefault(exception, key, default) ==
    IF exception[key] = None THEN default ELSE exception[key]

\* ---- payloads
\* A Python value that can be a payload: its type and its size (len() of a
\* dict, a list or a string; the number; 1 for True, 0 for False and None)
PyValue(type, size) == [type |-> type, size |-> size]
PyNone == PyValue("NoneType", 0)
EmptyDict == PyValue("dict", 0)
\* the JSON values: None, {}, {"k": 1}, [], [1], 0, 1, False, True, "", "s"
JsonValues ==
    {PyNone} \cup {PyValue(type, size) : type \in {"dict", "list", "int", "bool", "str"},
                                        size \in {0, 1}}
\* the payload argument of create_output: omitted (None), or a JSON value
Payloads ==
    {PyNone, EmptyDict, PyValue("dict", 1), PyValue("list", 0), PyValue("list", 1),
     PyValue("int", 0), PyValue("bool", 0), PyValue("str", 0)}

\* bool(value): None, empty containers, the empty string, 0 and False are falsy
PyTruthy(value) == value.size # 0
\* a or b
PyOr(a, b) == IF PyTruthy(a) THEN a ELSE b
\* a if a is not None else b
PyIfNotNone(a, b) == IF a # PyNone THEN a ELSE b

\* json.dumps(value): the JSON text of a value
Dumps(value) ==
    CASE value.type = "NoneType" -> "null"
      [] value.type = "dict" -> IF value.size = 0 THEN "{}" ELSE "{\"k\": 1}"
      [] value.type = "list" -> IF value.size = 0 THEN "[]" ELSE "[1]"
      [] value.type = "int" -> IF value.size = 0 THEN "0" ELSE "1"
      [] value.type = "bool" -> IF value.size = 0 THEN "false" ELSE "true"
      [] value.type = "str" -> IF value.size = 0 THEN "\"\"" ELSE "\"s\""

\* json.loads(text): the value of a JSON text
Loads(text) ==
    CASE text = "null" -> PyValue("NoneType", 0)
      [] text = "{}" -> PyValue("dict", 0)
      [] text = "{\"k\": 1}" -> PyValue("dict", 1)
      [] text = "[]" -> PyValue("list", 0)
      [] text = "[1]" -> PyValue("list", 1)
      [] text = "0" -> PyValue("int", 0)
      [] text = "1" -> PyValue("int", 1)
      [] text = "false" -> PyValue("bool", 0)
      [] text = "true" -> PyValue("bool", 1)
      [] text = "\"\"" -> PyValue("str", 0)
      [] text = "\"s\"" -> PyValue("str", 1)

\* a variant of text or default: the default, whatever the text
TextDefault(text, default) == default

\* text or default, for a TEXT column: NULL and '' are falsy
TextOr(text, default) == IF text \in {None, ""} THEN default ELSE text

\* ---- files ----
\* bytes: what they hold and how many they are
Bytes(data, len) == [data |-> data, len |-> len]
NoBytes == Bytes("", 0)
\* INLINE_FILE_THRESHOLD (redis_adapter), GRIDFS_THRESHOLD (docdb_adapter):
\* longer contents go to the filesystem or to GridFS
INLINE_FILE_THRESHOLD == 1000000
\* the contents of the model: two that are stored inline and one that is not
Contents == {Bytes("a", 1), Bytes("b", 1), Bytes("c", INLINE_FILE_THRESHOLD + 1)}
\* the filenames of the model: one without and one with a dot
FileNames == {"notes", "a.txt"}
\* MAX_FILE_SIZE (redis_adapter, docdb_adapter)
MAX_FILE_SIZE == 104857600
\* the longest filename add_file takes: len(name) > 255 is refused
MaxNameLength == 255
\* the longest name of a directory entry, NAME_MAX of the filesystems of Linux
NAME_MAX == 255
\* filenames at the limits: with a slash, with a backslash, and two that
\* stand for names of MaxNameLength and of MaxNameLength + 1 characters
BoundaryNames == {"dir/x", "dir\\x", "n255", "n256"}
\* len(name)
NameLength(name) ==
    CASE name = "n255" -> MaxNameLength
      [] name = "n256" -> MaxNameLength + 1
      [] OTHER -> 5
\* '/' in name, '\\' in name
HasSlash(name) == name = "dir/x"
HasBackslash(name) == name = "dir\\x"
\* contents at the limits: of MAX_FILE_SIZE and of MAX_FILE_SIZE + 1 bytes
BoundaryContents == {Bytes("m", MAX_FILE_SIZE), Bytes("o", MAX_FILE_SIZE + 1)}
\* base64.b64encode(content).decode("ascii"), and base64.b64decode of it
B64Encode(content) == [base64 |-> content]
B64Decode(text) == text.base64
\* files_dir / item_id / name
Filepath(id, name) == <<id, name>>
NoPath == Filepath(0, "")
\* the value of a field of the Redis files hash: f"file://{filepath}" or the
\* base64 text
FileRef(filepath) == [scheme |-> "file://", path |-> filepath, text |-> B64Encode(NoBytes)]
InlineRef(content) == [scheme |-> "", path |-> NoPath, text |-> B64Encode(content)]
\* the value of a file in a document: the base64 text, or
\* {"gridfs_id": ..., "size": ...}
InlineData(content) == [type |-> "str", text |-> B64Encode(content), gridfs_id |-> 0]
GridfsData(gridfs_id) == [type |-> "dict", text |-> B64Encode(NoBytes), gridfs_id |-> gridfs_id]
\* the path that the update key f"files.{name}" names in a document: MongoDB
\* splits the key on its dots
FieldPath(name) ==
    CASE name = "a.txt" -> <<"files", "a", "txt">>
      [] OTHER -> <<"files", name>>
\* the keys of document["files"]: the first component under files of the
\* paths that are set
FilesKeys(files) == {path[2] : path \in DOMAIN files}
\* the errors of the file calls
FileExists == "File already exists"
FileNotFound == "File not found"
FileMissing == "File missing from filesystem"
\* the ValueErrors of the validation of add_file
InvalidFilename == "Invalid filename (no path separators allowed)"
FilenameTooLong == "Filename too long (max 255 chars)"
FileTooLarge == "File too large"
\* the validation of add_file (redis_adapter, docdb_adapter): the error it
\* raises, None when it raises none
add_file_invalid(name, content) ==
    IF HasSlash(name) \/ HasBackslash(name) THEN InvalidFilename
    ELSE IF NameLength(name) > MaxNameLength THEN FilenameTooLong
    ELSE IF content.len > MAX_FILE_SIZE THEN FileTooLarge
    ELSE None
\* the OSErrors of the filesystem: a name longer than NAME_MAX, a path under
\* a directory that does not exist
ENAMETOOLONG == "OSError: File name too long"
ENOENT == "FileNotFoundError: No such file or directory"

\* recover_orphaned_work_items(timeout_minutes=None): the default timeout
TimeoutArgs == {orphan_timeout_minutes}

VARIABLES
    backend,        \* which adapter class this run is about
    now,            \* the clock
    nextId,         \* number of ids uuid4() has handed out
    work_items,     \* SQLite: table work_items, id -> row
    collections,    \* DocumentDB: queue -> (item_id -> document)
    r_pending,      \* Redis: queue -> list {q}:pending, head first
    r_processing,   \* Redis: queue -> list {q}:processing, head first
    r_done,         \* Redis: queue -> set {q}:done
    r_failed,       \* Redis: queue -> set {q}:failed
    r_payload,      \* Redis: <<q, id>> -> hash {q}:payload:{id}
    r_timestamps,   \* Redis: <<q, id>> -> hash {q}:timestamps:{id}
    r_exception,    \* Redis: <<q, id>> -> hash {q}:exception:{id}
    r_state,        \* Redis: <<q, id>> -> string {q}:state:{id}
    r_origin_queue, \* Redis: id -> string origin_queue:{id}
    r_files,        \* Redis: <<q, id>> -> hash {q}:files:{id}, filename -> reference
    r_expire,       \* Redis: <<kind, q, id>> -> the expiry of key {q}:{kind}:{id}:
                    \* when it was set and for how many seconds; no entry for
                    \* a key that has no expiry
    work_item_files, \* SQLite: table work_item_files, <<work_item_id, filename>> -> filepath
    filesystem,     \* files_dir: filepath -> the bytes of the file
    gridfs,         \* DocumentDB: GridFS, gridfs_id -> the bytes of the object
    pc,             \* worker -> its position in the call it is in
    loc,            \* worker -> the local variables of that call
    returned,       \* history: ids returned by reserve_input, in order
    outputs,        \* history: ids returned by create_output
    released,       \* history: ids of items released as COMPLETED or FAILED
    crashed,        \* history: [id, at]: the worker that reserved id died at time at
    recovered,      \* history: the list the latest recover_orphaned_work_items returned
    result,         \* history: worker -> the outcome of its latest payload or file call
    passed,         \* history: id -> the payload its latest create_output or
                    \*          save_payload was given, and which of the two it was
    attached,       \* history: <<id, filename>> -> the bytes of the add_file call
                    \*          that returned for them
    started,        \* number of calls begun
    phase,          \* scenario: "seed" until the first reserve_input, then "reserve"
    calls,          \* scenario: reserve_input calls completed
    empties,        \* scenario: reserve_input calls that raised EmptyQueue
    before,         \* scenario: the input queue as the call in progress found it
    parent_id,      \* work_items.parent_id, the field parent_id of a document or
                    \* the key {q}:parent:{id}, by item id; no entry for NULL
                    \* or for no key
    schema_version, \* SQLite: the versions in the rows of table schema_version
    schema,         \* SQLite: the migrations whose statements shaped the tables
    opening,        \* SQLite: the adapter that is being constructed, and what
                    \* its _init_database did
    in_transaction, \* SQLite: per worker, its thread's connection has a write
                    \* transaction open (sqlite3.Connection.in_transaction)
    faults,         \* scenario: transient failures the backend still produces
    attempt         \* scenario: per worker, the failed attempts of its call

files_store == <<work_item_files, filesystem, r_files, gridfs>>
store == <<work_items, collections, r_pending, r_processing, r_done, r_failed,
           r_payload, r_timestamps, r_exception, r_state, r_origin_queue, r_expire,
           files_store, parent_id>>
redis == <<r_pending, r_processing, r_done, r_failed,
           r_payload, r_timestamps, r_exception, r_state, r_origin_queue, r_expire>>
history == <<returned, outputs, released, crashed>>
database == <<schema_version, schema, opening>>
retrying == <<faults, attempt>>
scenario == <<phase, calls, empties, before, faults, attempt>>
vars == <<backend, in_transaction, database, now, nextId, store, pc, loc, history, recovered, result, passed, attached, started,
          scenario>>

\* ----------------------------------------------------------------- helpers
Last(s) == s[Len(s)]
Front(s) == SubSeq(s, 1, Len(s) - 1)
Range(s) == {s[i] : i \in 1..Len(s)}
Min(a, b) == IF a < b THEN a ELSE b

\* f with key k bound to v (k is added to the domain when missing)
Put(f, k, v) == [x \in DOMAIN f \cup {k} |-> IF x = k THEN v ELSE f[x]]

\* the ids of S as a list, in the order of key
RECURSIVE ListOf(_, _)
ListOf(S, key) ==
    IF S = {} THEN <<>>
    ELSE LET first == CHOOSE i \in S : \A j \in S : key[i] <= key[j]
         IN <<first>> \o ListOf(S \ {first}, key)

\* the local variables of a worker that is in no call
NoLoc == [id |-> 0, state |-> None, exception |-> ExcNone, items |-> <<>>,
          recovered_ids |-> <<>>, cutoff |-> 0, was_reserved |-> FALSE,
          name |-> None, content |-> NoBytes, queue |-> None, gridfs_id |-> 0]

\* the outcome of a payload or file call: the exception it raised (None when
\* it returned) and the value it returned
FileOutcome(op, id, error, payload, name, content, names) ==
    [op |-> op, id |-> id, error |-> error, payload |-> payload,
     name |-> name, content |-> content, names |-> names]
Outcome(op, id, error, payload) == FileOutcome(op, id, error, payload, None, NoBytes, <<>>)
NoResult == Outcome(None, 0, None, PyNone)
\* the payload argument of a call, and the call
Passed(op, payload) == [by |-> op, payload |-> payload]
\* ValueError(f"Work item not found: {item_id}")
NotFound == "Work item not found"
\* DatabaseTemporarilyUnavailable (exceptions.py)
DatabaseTemporarilyUnavailable == "DatabaseTemporarilyUnavailable"
\* sqlite3.OperationalError("database is locked"): the write lock was not had
\* within busy_timeout
DatabaseLocked == "database is locked"

\* the call of w returns value, or raises error
Returns(w, op, id, value) == result' = [result EXCEPT ![w] = Outcome(op, id, None, value)]
Raises(w, op, id, error) == result' = [result EXCEPT ![w] = Outcome(op, id, error, PyNone)]
\* a list of the names of a set, each once
NamesList(S) == CHOOSE names \in [1..Cardinality(S) -> S] : Range(names) = S
\* a file call of w returns content or the list of the names it read, or
\* raises error; an add_file outcome keeps the content the call was given
ReturnsFile(w, op, id, name, content, names) ==
    result' = [result EXCEPT ![w] =
                  FileOutcome(op, id, None, PyNone, name, content, NamesList(names))]
RaisesFile(w, op, id, name, content, error) ==
    result' = [result EXCEPT ![w] = FileOutcome(op, id, error, PyNone, name, content, <<>>)]

\* no call in progress: no operation, no failed attempt
NoAttempt == [op |-> None, n |-> 0, id |-> 0, name |-> None]

\* SCHEMA_VERSION = 4
SCHEMA_VERSION == 4
\* no adapter is being constructed: pc is "closed" before _init_database,
\* "open" after it returned and "failed" after it raised; current_version and
\* version are its local variables, version 0 before the loop; applied lists
\* the migrations it ran
NotOpening == [pc |-> "closed", current_version |-> 0, version |-> 0,
               applied |-> <<>>, error |-> None, opens |-> 0]

\* no call is in progress, nothing was found
NoSnapshot == [orphans |-> {}, items |-> <<>>, id |-> 0, name |-> None, names |-> {},
               blobs |-> {}]

\* the call a worker makes is complete: it is in no call any more
Return(w) ==
    /\ pc' = [pc EXCEPT ![w] = "idle"]
    /\ loc' = [loc EXCEPT ![w] = NoLoc]

\* the worker goes on to its next command
Goto(w, label, locals) ==
    /\ pc' = [pc EXCEPT ![w] = label]
    /\ loc' = [loc EXCEPT ![w] = locals]

\* ---- SQLite: the connection of the thread of a worker
\* In WAL mode one connection at a time has the write lock.  A connection gets
\* it with its first INSERT, UPDATE or DELETE (sqlite3 begins a transaction
\* before the statement) and keeps it until it commits or rolls back; the
\* statement of another connection waits busy_timeout for it and then fails.
sqlite_busy(w) == \E v \in Workers \ {w} : in_transaction[v]
\* conn.commit()
Commit(w) == in_transaction' = [in_transaction EXCEPT ![w] = FALSE]
\* the statement ran and the method raised before its conn.commit()
Uncommitted(w) == in_transaction' = [in_transaction EXCEPT ![w] = TRUE]

\* ids whose release_input is recorded: the call named an item that was RESERVED
NoteReleased(id, wasReserved) ==
    released' = IF wasReserved THEN released \cup {id} ELSE released

\* an item that is reserved again or released has an owner again
Disown(id) == {c \in crashed : c.id # id}

\* the parent_id argument of create_output: a str, or None. A str is the id
\* of an item written as text; value 0 stands for the empty string, which is
\* no item's id
Str(value) == [type |-> "str", value |-> value]
NoParent == [type |-> "NoneType", value |-> 0]
ParentIds == {Str(value) : value \in 0..UnknownId}
\* sqlite3.IntegrityError of an INSERT whose parent_id names no row
IntegrityError == "sqlite3.IntegrityError: FOREIGN KEY constraint failed"
\* ValueError("parent_id must be a string (input work item ID)")
ParentNotString == "parent_id must be a string"

\* ================================================================= SQLite
\* a row of work_items as the INSERT of create_output leaves it
sqlite_new_row(tbl, q, t, payload_json) ==
    [queue_name |-> q, payload |-> payload_json, state |-> PENDING, created_at |-> t,
     reserved_at |-> NullTime, released_at |-> NullTime,
     exception_type |-> None, exception_code |-> None, exception_message |-> None,
     rowid |-> Cardinality(DOMAIN tbl) + 1]

\* a variant of the ordering: ORDER BY created_at DESC
sqlite_order_desc(a, b) ==
    \/ a.created_at > b.created_at
    \/ a.created_at = b.created_at /\ a.rowid >= b.rowid

\* ORDER BY created_at ASC over index idx_queue_state (queue_name, state,
\* created_at): rows with equal created_at are visited in rowid order
sqlite_order(a, b) ==
    \/ a.created_at < b.created_at
    \/ a.created_at = b.created_at /\ a.rowid <= b.rowid

\* SELECT id FROM work_items WHERE queue_name = ? AND state = ?
\* ORDER BY created_at ASC LIMIT 1: the set of its rows (none or one)
sqlite_select_oldest(tbl, q) ==
    LET cand == {i \in DOMAIN tbl : tbl[i].queue_name = q /\ tbl[i].state = PENDING}
    IN {i \in cand : \A j \in cand : sqlite_order(tbl[i], tbl[j])}

\* SET state = 'RESERVED', reserved_at = CURRENT_TIMESTAMP
sqlite_reserve_row(row, t) == [row EXCEPT !.state = RESERVED, !.reserved_at = t]

\* release_input's check of the state argument
release_state_ok(state) == state \in {COMPLETED, FAILED}

\* release_input's second check: FAILED needs exception["message"]
sqlite_release_args_ok(state, exception) ==
    /\ release_state_ok(state)
    /\ ~(state = FAILED /\ DictGet(exception, "message") \in {None, ""})

\* SET state = ?, released_at = CURRENT_TIMESTAMP, exception_* = ?
sqlite_release_row(row, state, exception, t) ==
    [row EXCEPT !.state = state,
                !.released_at = t,
                !.exception_type = IF Truthy(exception) THEN DictGet(exception, "type") ELSE None,
                !.exception_code = IF Truthy(exception) THEN DictGet(exception, "code") ELSE None,
                !.exception_message = IF Truthy(exception) THEN DictGet(exception, "message") ELSE None]

\* WHERE state = 'RESERVED' AND datetime(reserved_at, '+N minutes') < datetime('now')
\* (a NULL reserved_at makes the comparison NULL, which selects nothing)
sqlite_is_orphan(row, t) ==
    /\ row.state = RESERVED
    /\ row.reserved_at # NullTime
    /\ row.reserved_at + orphan_timeout_minutes < t

\* SET state = 'PENDING', reserved_at = NULL
sqlite_recover_row(row) == [row EXCEPT !.state = PENDING, !.reserved_at = NullTime]

sqlite_reserve_input(w) ==
    /\ backend = "sqlite" /\ pc[w] = "idle"
    /\ LET hit == sqlite_select_oldest(work_items, queue_name) IN
        IF sqlite_busy(w)
        THEN /\ Raises(w, "reserve_input", 0, DatabaseTemporarilyUnavailable)
             /\ Return(w)
             /\ UNCHANGED <<work_items, returned, crashed, in_transaction>>
        ELSE IF hit = {}
        THEN /\ Return(w)
             /\ Commit(w)
             /\ UNCHANGED <<work_items, returned, crashed, result>>
        ELSE \E id \in hit :
             /\ work_items' = [work_items EXCEPT ![id] = sqlite_reserve_row(@, now)]
             /\ returned' = Append(returned, id)
             /\ crashed' = Disown(id)
             /\ Commit(w)
             /\ Return(w)
             /\ UNCHANGED result
    /\ UNCHANGED <<backend, database, parent_id, files_store, attached, passed, recovered, now, nextId, collections, redis, outputs, released>>

sqlite_release_input(w, id, state, exception) ==
    /\ backend = "sqlite" /\ pc[w] = "idle"
    /\ IF ~sqlite_release_args_ok(state, exception)
       THEN /\ Return(w)
            /\ UNCHANGED <<work_items, released, crashed, in_transaction, result>>
       ELSE IF sqlite_busy(w)
       THEN /\ Raises(w, "release_input", id, DatabaseLocked)
            /\ Return(w)
            /\ UNCHANGED <<work_items, released, crashed, in_transaction>>
       ELSE /\ work_items' = [i \in DOMAIN work_items |->
                    IF i = id THEN sqlite_release_row(work_items[i], state, exception, now)
                    ELSE work_items[i]]
            /\ NoteReleased(id, id \in DOMAIN work_items /\ work_items[id].state = RESERVED)
            /\ crashed' = Disown(id)
            /\ Commit(w)
            /\ Return(w)
            /\ UNCHANGED result
    /\ UNCHANGED <<backend, database, parent_id, files_store, attached, passed, recovered, now, nextId, collections, redis, returned, outputs>>

\* payload_json = json.dumps(payload or {})
sqlite_payload_json(payload) == Dumps(PyOr(payload, EmptyDict))

\* FOREIGN KEY (parent_id) REFERENCES work_items(id), with PRAGMA
\* foreign_keys=ON: the INSERT passes when parent_id is NULL or the id of a row
sqlite_foreign_key_ok(tbl, parent) ==
    parent.type = "NoneType" \/ parent.value \in DOMAIN tbl

\* create_output(parent_id, payload)
sqlite_create_output_parent(w, parent, payload) ==
    /\ backend = "sqlite" /\ pc[w] = "idle"
    /\ nextId < MaxItems
    /\ IF sqlite_busy(w)
       THEN /\ Raises(w, "create_output", 0, DatabaseLocked)
            /\ UNCHANGED <<nextId, work_items, parent_id, passed, outputs, in_transaction>>
       ELSE IF sqlite_foreign_key_ok(work_items, parent)
       THEN /\ nextId' = nextId + 1
            /\ work_items' = Put(work_items, nextId + 1,
                                 sqlite_new_row(work_items, output_queue_name, now,
                                                sqlite_payload_json(payload)))
            /\ parent_id' = IF parent.type = "NoneType" THEN parent_id
                            ELSE Put(parent_id, nextId + 1, parent)
            /\ passed' = Put(passed, nextId + 1, Passed("create_output", payload))
            /\ outputs' = outputs \cup {nextId + 1}
            /\ Commit(w)
            /\ UNCHANGED result
       ELSE /\ Raises(w, "create_output", 0, IntegrityError)
            /\ Uncommitted(w)
            /\ UNCHANGED <<nextId, work_items, parent_id, passed, outputs>>
    /\ Return(w)
    /\ UNCHANGED <<backend, database, files_store, attached, recovered, now, collections, redis, returned, released, crashed>>

\* create_output(None, payload): an output without a parent
sqlite_create_output(w, payload) == sqlite_create_output_parent(w, NoParent, payload)

\* The SQLite adapter has no seed_input.  The rows of its input queue are
\* the rows the create_output of an upstream adapter INSERTs, whose output
\* queue is this adapter's queue_name; its payload argument is omitted.  That
\* adapter has a connection of its own: its INSERT needs the write lock free.
sqlite_upstream_create_output(w) ==
    /\ backend = "sqlite" /\ pc[w] = "idle"
    /\ \A v \in Workers : ~in_transaction[v]
    /\ nextId < MaxItems
    /\ nextId' = nextId + 1
    /\ work_items' = Put(work_items, nextId + 1,
                         sqlite_new_row(work_items, queue_name, now,
                                        sqlite_payload_json(PyNone)))
    /\ Return(w)
    /\ UNCHANGED <<backend, in_transaction, database, parent_id, files_store, attached, passed, recovered, result, now, collections, redis, history>>

sqlite_recover_orphaned_work_items(w) ==
    /\ backend = "sqlite" /\ pc[w] = "idle"
    /\ LET hit == {i \in DOMAIN work_items : sqlite_is_orphan(work_items[i], now)} IN
        IF sqlite_busy(w)
        THEN /\ Raises(w, "recover_orphaned_work_items", 0, DatabaseLocked)
             /\ Return(w)
             /\ UNCHANGED <<work_items, recovered, in_transaction>>
        ELSE /\ work_items' = [i \in DOMAIN work_items |->
                    IF i \in hit THEN sqlite_recover_row(work_items[i]) ELSE work_items[i]]
             \* RETURNING id
             /\ recovered' = ListOf(hit, [i \in hit |-> work_items[i].rowid])
             /\ Commit(w)
             /\ Return(w)
             /\ UNCHANGED result
    /\ UNCHANGED <<backend, database, parent_id, files_store, attached, passed, now, nextId, collections, redis, history>>

\* SELECT payload FROM work_items WHERE id = ?, then json.loads(result[0] or "{}")
sqlite_load_payload(w, id) ==
    /\ backend = "sqlite" /\ pc[w] = "idle"
    /\ IF id \notin DOMAIN work_items
       THEN Raises(w, "load_payload", id, NotFound)
       ELSE Returns(w, "load_payload", id, Loads(TextOr(work_items[id].payload, "{}")))
    /\ Return(w)
    /\ UNCHANGED <<backend, in_transaction, database, parent_id, files_store, attached, passed, recovered, now, nextId, store, history>>

\* UPDATE work_items SET payload = ? WHERE id = ? with json.dumps(payload)
sqlite_save_payload(w, id, payload) ==
    /\ backend = "sqlite" /\ pc[w] = "idle"
    /\ IF sqlite_busy(w)
       THEN /\ Raises(w, "save_payload", id, DatabaseLocked)
            /\ UNCHANGED <<passed, work_items, in_transaction>>
       ELSE IF id \notin DOMAIN work_items
       \* cursor.rowcount == 0: the ValueError is raised before conn.commit()
       THEN /\ Raises(w, "save_payload", id, NotFound)
            /\ Uncommitted(w)
            /\ UNCHANGED passed
            /\ UNCHANGED work_items
       ELSE /\ work_items' = [work_items EXCEPT ![id].payload = Dumps(payload)]
            /\ Returns(w, "save_payload", id, PyNone)
            /\ passed' = Put(passed, id, Passed("save_payload", payload))
            /\ Commit(w)
    /\ Return(w)
    /\ UNCHANGED <<backend, database, parent_id, files_store, attached, recovered, now, nextId, collections, redis, history>>

\* ============================================================= DocumentDB
\* the exception of a document that has no "exception" field
NoException == [type |-> None, code |-> None, message |-> None]

\* the document insert_one stores (create_output, seed_input)
docdb_new_document(coll, q, t, payload_data) ==
    [queue_name |-> q, state |-> PENDING, payload |-> payload_data, created_at |-> t,
     reserved_at |-> NullTime, released_at |-> NullTime,
     exception |-> NoException, files |-> <<>>, callid |-> None,
     natural |-> Cardinality(DOMAIN coll) + 1]

\* sort=[("timestamps.created_at", ASCENDING)] over queue_state_created_idx:
\* documents with equal created_at are visited in insertion order
docdb_order(a, b) ==
    \/ a.created_at < b.created_at
    \/ a.created_at = b.created_at /\ a.natural <= b.natural

\* the document find_one_and_update matches: {queue_name, state: PENDING},
\* first in sort order (none or one)
docdb_find_oldest(coll, q) ==
    LET cand == {i \in DOMAIN coll : coll[i].queue_name = q /\ coll[i].state = PENDING}
    IN {i \in cand : \A j \in cand : docdb_order(coll[i], coll[j])}

\* a variant of the update: the $set leaves the state as it is
docdb_reserve_keeps_state(doc, t) == [doc EXCEPT !.reserved_at = t]

\* $set: {state: RESERVED, timestamps.reserved_at: now}
docdb_reserve_document(doc, t) == [doc EXCEPT !.state = RESERVED, !.reserved_at = t]

\* release_input's checks (Redis and DocumentDB): FAILED needs a truthy exception
release_args_ok(state, exception) ==
    /\ release_state_ok(state)
    /\ ~(state = FAILED /\ ~Truthy(exception))

\* the exception record release_input stores from its argument
exception_record(exception) ==
    [type |-> DictGetDefault(exception, "type", "UnknownException"),
     code |-> DictGetDefault(exception, "code", ""),
     message |-> DictGetDefault(exception, "message", "")]

\* update_doc of release_input
docdb_release_document(doc, state, exception, t) ==
    [doc EXCEPT !.state = state,
                !.released_at = t,
                !.exception = IF Truthy(exception) THEN exception_record(exception) ELSE @]

\* a variant of the filter: {state: RESERVED}, whatever the reserved_at
docdb_is_reserved(doc, cutoff) == doc.state = RESERVED

\* {state: RESERVED, timestamps.reserved_at: {$lt: cutoff}}
docdb_is_orphan(doc, cutoff) ==
    /\ doc.state = RESERVED
    /\ doc.reserved_at # NullTime
    /\ doc.reserved_at < cutoff

\* $set: {state: PENDING}, $unset: {timestamps.reserved_at}
docdb_recover_document(doc) == [doc EXCEPT !.state = PENDING, !.reserved_at = NullTime]

docdb_reserve_input(w) ==
    /\ backend = "docdb" /\ pc[w] = "idle"
    /\ LET coll == collections[queue_name]
           hit == docdb_find_oldest(coll, queue_name) IN
        IF hit = {}
        THEN /\ Return(w)
             /\ UNCHANGED <<collections, returned, crashed>>
        ELSE \E id \in hit :
             /\ collections' = [collections EXCEPT ![queue_name][id] =
                                    docdb_reserve_document(@, now)]
             /\ returned' = Append(returned, id)
             /\ crashed' = Disown(id)
             /\ Return(w)
    /\ UNCHANGED <<backend, in_transaction, database, parent_id, files_store, attached, passed, recovered, result, now, nextId, work_items, redis, outputs, released>>

docdb_release_input(w, id, state, exception) ==
    /\ backend = "docdb" /\ pc[w] = "idle"
    /\ LET coll == collections[queue_name] IN
       IF ~release_args_ok(state, exception)
       THEN /\ Return(w)
            /\ UNCHANGED <<collections, released, crashed>>
       ELSE /\ collections' = [collections EXCEPT ![queue_name] =
                    [i \in DOMAIN coll |->
                        IF i = id THEN docdb_release_document(coll[i], state, exception, now)
                        ELSE coll[i]]]
            /\ NoteReleased(id, id \in DOMAIN coll /\ coll[id].state = RESERVED)
            /\ crashed' = Disown(id)
            /\ Return(w)
    /\ UNCHANGED <<backend, in_transaction, database, parent_id, files_store, attached, passed, recovered, result, now, nextId, work_items, redis, returned, outputs>>

\* payload_data = payload if payload is not None else {}
payload_data(payload) == PyIfNotNone(payload, EmptyDict)

\* create_output(parent_id, payload)
docdb_create_output_parent(w, parent, payload) ==
    /\ backend = "docdb" /\ pc[w] = "idle"
    /\ nextId < MaxItems
    /\ IF parent.type = "str"
       THEN /\ nextId' = nextId + 1
            /\ collections' = [collections EXCEPT ![output_queue_name] =
                    Put(@, nextId + 1, docdb_new_document(@, output_queue_name, now,
                                                          payload_data(payload)))]
            /\ parent_id' = Put(parent_id, nextId + 1, parent)
            /\ passed' = Put(passed, nextId + 1, Passed("create_output", payload))
            /\ outputs' = outputs \cup {nextId + 1}
            /\ UNCHANGED result
       ELSE /\ Raises(w, "create_output", 0, ParentNotString)
            /\ UNCHANGED <<nextId, collections, parent_id, passed, outputs>>
    /\ Return(w)
    /\ UNCHANGED <<backend, in_transaction, database, files_store, attached, recovered, now, work_items, redis, returned, released, crashed>>

\* create_output("", payload): an output without a parent
docdb_create_output(w, payload) == docdb_create_output_parent(w, Str(0), payload)

\* the callid arguments of the model: omitted, and two identifiers
CallIds == {None, "X", "Y"}

\* ValueError-like AdapterError(f"Work item with callid {callid} already exists")
DuplicateCallId == "Work item with callid already exists"

\* insert_one raises DuplicateKeyError: the document violates a unique index
\* of the collection. item_id_unique_idx is the only index created with
\* unique=True (callid_idx is sparse, not unique), and item_id is a new uuid4.
docdb_duplicate_key(coll, document) == FALSE

\* seed_input(payload, callid=callid): "callid" is set in the document when
\* the argument is truthy; DuplicateKeyError becomes AdapterError
docdb_seed_input_callid(w, callid) ==
    /\ backend = "docdb" /\ pc[w] = "idle"
    /\ nextId < MaxItems
    /\ LET coll == collections[queue_name]
           document == [docdb_new_document(coll, queue_name, now, payload_data(PyNone))
                            EXCEPT !.callid = callid]
       IN IF docdb_duplicate_key(coll, document)
          THEN /\ Raises(w, "seed_input", 0, DuplicateCallId)
               /\ UNCHANGED <<nextId, collections>>
          ELSE /\ nextId' = nextId + 1
               /\ collections' = [collections EXCEPT ![queue_name] =
                                      Put(@, nextId + 1, document)]
               /\ UNCHANGED result
    /\ Return(w)
    /\ UNCHANGED <<backend, in_transaction, database, parent_id, files_store, attached, passed, recovered, now, work_items, redis, history>>

\* seed_input(payload): no callid
docdb_seed_input(w) == docdb_seed_input_callid(w, None)

\* recover_orphaned_work_items, up to the first batch of the cursor
docdb_recover_find(w, timeout) ==
    /\ backend = "docdb" /\ pc[w] = "idle"
    /\ LET coll == collections[queue_name]
           cutoff == now - timeout
           hit == {i \in DOMAIN coll : docdb_is_orphan(coll[i], cutoff)}
           cursor == ListOf(hit, [i \in hit |-> coll[i].natural]) IN
        IF cursor = <<>>
        THEN /\ recovered' = <<>>
             /\ Return(w)
        ELSE /\ Goto(w, "docdb_recover_update",
                     [NoLoc EXCEPT !.items = cursor, !.cutoff = cutoff])
             /\ UNCHANGED recovered
    /\ UNCHANGED <<backend, in_transaction, database, parent_id, files_store, attached, passed, result, now, nextId, store, history>>

\* recover_orphaned_work_items, one turn of its loop: update_one by item_id
docdb_recover_update(w) ==
    /\ backend = "docdb" /\ pc[w] = "docdb_recover_update"
    /\ LET coll == collections[queue_name]
           id == Head(loc[w].items)
           modified == id \in DOMAIN coll /\ docdb_recover_document(coll[id]) # coll[id]
           recovered_ids == IF modified THEN Append(loc[w].recovered_ids, id)
                            ELSE loc[w].recovered_ids IN
        /\ collections' = [collections EXCEPT ![queue_name] =
                [i \in DOMAIN coll |->
                    IF i = id THEN docdb_recover_document(coll[i]) ELSE coll[i]]]
        /\ IF Tail(loc[w].items) = <<>>
           THEN /\ recovered' = recovered_ids
                /\ Return(w)
           ELSE /\ Goto(w, "docdb_recover_update",
                        [loc[w] EXCEPT !.items = Tail(@), !.recovered_ids = recovered_ids])
                /\ UNCHANGED recovered
    /\ UNCHANGED <<backend, in_transaction, database, parent_id, files_store, attached, passed, result, now, nextId, work_items, redis, history>>

\* _resolve_item_queue: the queue whose collection holds the item, the input
\* queue first; None when neither does (the method raises)
docdb_resolve_item_queue(id) ==
    IF id \in DOMAIN collections[queue_name] THEN queue_name
    ELSE IF id \in DOMAIN collections[output_queue_name] THEN output_queue_name
    ELSE None

\* find_one({item_id}, {payload: 1}), then document.get("payload", {})
docdb_load_payload(w, id) ==
    /\ backend = "docdb" /\ pc[w] = "idle"
    /\ LET q == docdb_resolve_item_queue(id) IN
        IF q = None
        THEN Raises(w, "load_payload", id, NotFound)
        ELSE Returns(w, "load_payload", id, collections[q][id].payload)
    /\ Return(w)
    /\ UNCHANGED <<backend, in_transaction, database, parent_id, files_store, attached, passed, recovered, now, nextId, store, history>>

\* update_one({item_id}, {$set: {payload: payload}})
docdb_save_payload(w, id, payload) ==
    /\ backend = "docdb" /\ pc[w] = "idle"
    /\ LET q == docdb_resolve_item_queue(id) IN
        IF q = None
        THEN /\ Raises(w, "save_payload", id, NotFound)
             /\ UNCHANGED passed
             /\ UNCHANGED collections
        ELSE /\ collections' = [collections EXCEPT ![q][id].payload = payload]
             /\ Returns(w, "save_payload", id, PyNone)
             /\ passed' = Put(passed, id, Passed("save_payload", payload))
    /\ Return(w)
    /\ UNCHANGED <<backend, in_transaction, database, parent_id, files_store, attached, recovered, now, nextId, work_items, redis, history>>

\* ================================================================== Redis
\* _key(suffix, item_id, queue): the key {queue}:{suffix}:{item_id}
Key(q, id) == <<q, id>>

\* hashes with no field set
EmptyPayloadHash == [payload |-> None, queue_name |-> None, state |-> None]
EmptyTimestampsHash == [created_at |-> NullTime, reserved_at |-> NullTime,
                        released_at |-> NullTime]

\* HSET key field value: the hash is created when the key is missing
HSet(h, key, field, value, empty) ==
    Put(h, key, [(IF key \in DOMAIN h THEN h[key] ELSE empty) EXCEPT ![field] = value])

\* HDEL key field: a hash left without fields is deleted
HDel(h, key, field, empty) ==
    IF key \notin DOMAIN h THEN h
    ELSE LET left == [h[key] EXCEPT ![field] = empty[field]] IN
         IF left = empty
         THEN [k \in DOMAIN h \ {key} |-> h[k]]
         ELSE [h EXCEPT ![key] = left]

\* HGET key "reserved_at" on a timestamps hash: NullTime when there is none
HGetReservedAt(h, key) == IF key \in DOMAIN h THEN h[key].reserved_at ELSE NullTime

\* LPUSH list value
LPush(list, id) == <<id>> \o list
\* LREM list 0 value: every occurrence goes
LRem(list, id) == SelectSeq(list, LAMBDA x : x # id)
\* what RPOPLPUSH pops from the source list: its tail
RPop(list) == Last(list)
\* a variant of RPOPLPUSH: the source list keeps its tail
RPopKeeps(list) == list
\* what RPOPLPUSH leaves of the source list
RPopRest(list) == Front(list)

\* the time to live of the keys of an item (604800) and of its exception
\* hash (86400), in seconds
SevenDays == 604800
OneDay == 86400
\* the name of the key {q}:{kind}:{id}
ExpireKey(kind, q, id) == <<kind, q, id>>
\* EXPIRE key seconds, or SET key value EX seconds, at time t
Expire(e, key, t, seconds) == Put(e, key, [at |-> t, seconds |-> seconds])
\* SET key value without EX, or the key is deleted: the key has no expiry
Persist(e, key) == [k \in DOMAIN e \ {key} |-> e[k]]
\* a variant of save_payload that ends with EXPIRE of the keys of the item
ExpireAll(e, q, id, t) ==
    [k \in DOMAIN e |-> IF k[2] = q /\ k[3] = id /\ k[1] # "exception"
                        THEN [at |-> t, seconds |-> SevenDays] ELSE e[k]]
\* save_payload has no EXPIRE: the expiry of every key is what it was
ExpireOnSave(e, q, id, t) == e

\* reserved_at < cutoff_time, for an item that has a reserved_at
redis_is_orphan(reserved_at, cutoff) == reserved_at # NullTime /\ reserved_at < cutoff

\* ---- reserve_input
redis_reserve_rpoplpush(w) ==
    /\ backend = "redis" /\ pc[w] = "idle"
    /\ IF r_pending[queue_name] = <<>>
       THEN /\ Return(w)
            /\ UNCHANGED <<r_pending, r_processing, crashed>>
       ELSE LET id == RPop(r_pending[queue_name]) IN
            /\ r_pending' = [r_pending EXCEPT ![queue_name] = RPopRest(@)]
            /\ r_processing' = [r_processing EXCEPT ![queue_name] = LPush(@, id)]
            /\ crashed' = Disown(id)
            /\ Goto(w, "reserve_hset_reserved_at", [NoLoc EXCEPT !.id = id])
    /\ UNCHANGED <<backend, in_transaction, database, r_expire, parent_id, files_store, attached, passed, recovered, result, now, nextId, work_items, collections, r_done, r_failed,
                   r_payload, r_timestamps, r_exception, r_state, r_origin_queue,
                   returned, outputs, released>>

redis_reserve_hset_reserved_at(w) ==
    /\ backend = "redis" /\ pc[w] = "reserve_hset_reserved_at"
    /\ r_timestamps' = HSet(r_timestamps, Key(queue_name, loc[w].id), "reserved_at",
                            now, EmptyTimestampsHash)
    /\ Goto(w, "reserve_hset_state", loc[w])
    /\ UNCHANGED <<backend, in_transaction, database, r_expire, parent_id, files_store, attached, passed, recovered, result, now, nextId, work_items, collections, r_pending,
                   r_processing, r_done, r_failed, r_payload, r_exception, r_state, r_origin_queue,
                   history>>

redis_reserve_hset_state(w) ==
    /\ backend = "redis" /\ pc[w] = "reserve_hset_state"
    /\ r_payload' = HSet(r_payload, Key(queue_name, loc[w].id), "state",
                         RESERVED, EmptyPayloadHash)
    /\ returned' = Append(returned, loc[w].id)
    /\ Return(w)
    /\ UNCHANGED <<backend, in_transaction, database, r_expire, parent_id, files_store, attached, passed, recovered, result, now, nextId, work_items, collections, r_pending,
                   r_processing, r_done, r_failed, r_timestamps, r_exception, r_state, r_origin_queue,
                   outputs, released, crashed>>

\* ---- release_input
redis_release_lrem(w, id, state, exception) ==
    /\ backend = "redis" /\ pc[w] = "idle"
    /\ IF ~release_args_ok(state, exception)
       THEN /\ Return(w)
            /\ UNCHANGED <<r_processing, crashed>>
       ELSE /\ r_processing' = [r_processing EXCEPT ![queue_name] = LRem(@, id)]
            /\ crashed' = Disown(id)
            /\ Goto(w, "release_terminal",
                    [NoLoc EXCEPT !.id = id, !.state = state, !.exception = exception,
                                  !.was_reserved = id \in Range(r_processing[queue_name])])
    /\ UNCHANGED <<backend, in_transaction, database, r_expire, parent_id, files_store, attached, passed, recovered, result, now, nextId, work_items, collections, r_pending, r_done,
                   r_failed, r_payload, r_timestamps, r_exception, r_state, r_origin_queue,
                   returned, outputs, released>>

\* SADD to {q}:done or {q}:failed, HSET {q}:exception:{id} with its EXPIRE,
\* HSET released_at and SET {q}:state:{id}: keys that only release_input
\* writes and no other operation reads, taken as one step
redis_release_terminal(w) ==
    /\ backend = "redis" /\ pc[w] = "release_terminal"
    /\ LET id == loc[w].id IN
        /\ r_done' = IF loc[w].state = COMPLETED
                     THEN [r_done EXCEPT ![queue_name] = @ \cup {id}] ELSE r_done
        /\ r_failed' = IF loc[w].state = COMPLETED
                       THEN r_failed ELSE [r_failed EXCEPT ![queue_name] = @ \cup {id}]
        /\ r_exception' = IF loc[w].state # COMPLETED /\ Truthy(loc[w].exception)
                          THEN Put(r_exception, Key(queue_name, id),
                                   exception_record(loc[w].exception))
                          ELSE r_exception
        /\ r_timestamps' = HSet(r_timestamps, Key(queue_name, id), "released_at",
                                now, EmptyTimestampsHash)
        /\ r_state' = Put(r_state, Key(queue_name, id), loc[w].state)
        /\ r_expire' =
            Persist(IF loc[w].state # COMPLETED /\ Truthy(loc[w].exception)
                    THEN Expire(r_expire, ExpireKey("exception", queue_name, id),
                                now, OneDay)
                    ELSE r_expire,
                    ExpireKey("state", queue_name, id))
    /\ Goto(w, "release_hset_state", loc[w])
    /\ UNCHANGED <<backend, in_transaction, database, parent_id, files_store, attached, passed, recovered, result, now, nextId, work_items, collections, r_pending,
                   r_processing, r_payload, r_origin_queue, history>>

redis_release_hset_state(w) ==
    /\ backend = "redis" /\ pc[w] = "release_hset_state"
    /\ r_payload' = HSet(r_payload, Key(queue_name, loc[w].id), "state",
                         loc[w].state, EmptyPayloadHash)
    /\ NoteReleased(loc[w].id, loc[w].was_reserved)
    /\ Return(w)
    /\ UNCHANGED <<backend, in_transaction, database, r_expire, parent_id, files_store, attached, passed, recovered, result, now, nextId, work_items, collections, r_pending,
                   r_processing, r_done, r_failed, r_timestamps, r_exception, r_state, r_origin_queue,
                   returned, outputs, crashed>>

\* ---- seed_input
\* the payload hash seed_input and create_output store (and its EXPIRE)
redis_new_payload_hash(q, payload) ==
    [payload |-> Dumps(payload_data(payload)), queue_name |-> q, state |-> PENDING]

\* The commands of seed_input before its LPUSH write keys of an id that no
\* other call can name yet; they are taken together with the LPUSH.
redis_seed_input(w) ==
    /\ backend = "redis" /\ pc[w] = "idle"
    /\ nextId < MaxItems
    /\ nextId' = nextId + 1
    /\ r_payload' = Put(r_payload, Key(queue_name, nextId + 1),
                        redis_new_payload_hash(queue_name, PyNone))
    /\ r_timestamps' = HSet(r_timestamps, Key(queue_name, nextId + 1), "created_at",
                            now, EmptyTimestampsHash)
    /\ r_pending' = [r_pending EXCEPT ![queue_name] = LPush(@, nextId + 1)]
    /\ r_expire' = Expire(Expire(r_expire, ExpireKey("payload", queue_name, nextId + 1),
                                 now, SevenDays),
                          ExpireKey("timestamps", queue_name, nextId + 1), now, SevenDays)
    /\ Return(w)
    /\ UNCHANGED <<backend, in_transaction, database, parent_id, files_store, attached, passed, recovered, result, now, work_items, collections, r_processing,
                   r_done, r_failed, r_exception, r_state, r_origin_queue, history>>

\* ---- create_output
\* Every key create_output writes is a key of the new id or of the output
\* queue, which no other call reads before the id is returned.
\* create_output(parent_id, payload); the key {q}:parent:{id} is set
\* "if parent_id:"
redis_create_output_parent(w, parent, payload) ==
    /\ backend = "redis" /\ pc[w] = "idle"
    /\ nextId < MaxItems
    /\ IF parent.type = "str"
       THEN /\ nextId' = nextId + 1
            /\ r_payload' = Put(r_payload, Key(output_queue_name, nextId + 1),
                                redis_new_payload_hash(output_queue_name, payload))
            /\ parent_id' = IF parent.value # 0 THEN Put(parent_id, nextId + 1, parent)
                            ELSE parent_id
            /\ r_timestamps' = HSet(r_timestamps, Key(output_queue_name, nextId + 1),
                                    "created_at", now, EmptyTimestampsHash)
            /\ r_pending' = [r_pending EXCEPT ![output_queue_name] = LPush(@, nextId + 1)]
            /\ r_origin_queue' = Put(r_origin_queue, nextId + 1, output_queue_name)
            /\ r_expire' =
                LET id == nextId + 1
                    e1 == Expire(r_expire, ExpireKey("payload", output_queue_name, id),
                                 now, SevenDays)
                    e2 == IF parent.value # 0
                          THEN Expire(e1, ExpireKey("parent", output_queue_name, id),
                                      now, SevenDays)
                          ELSE e1
                    e3 == Expire(e2, ExpireKey("timestamps", output_queue_name, id),
                                 now, SevenDays)
                IN Expire(e3, ExpireKey("origin_queue", output_queue_name, id),
                          now, SevenDays)
            /\ passed' = Put(passed, nextId + 1, Passed("create_output", payload))
            /\ outputs' = outputs \cup {nextId + 1}
            /\ UNCHANGED result
       ELSE /\ Raises(w, "create_output", 0, ParentNotString)
            /\ UNCHANGED <<nextId, r_payload, parent_id, r_timestamps, r_pending,
                           r_origin_queue, r_expire, passed, outputs>>
    /\ Return(w)
    /\ UNCHANGED <<backend, in_transaction, database, files_store, attached, recovered, now, work_items, collections, r_processing,
                   r_done, r_failed, r_exception, r_state, returned, released, crashed>>

\* create_output("", payload): an output without a parent
redis_create_output(w, payload) == redis_create_output_parent(w, Str(0), payload)

\* ---- load_payload, save_payload
\* HEXISTS {q}:payload:{id} payload
redis_hexists_payload(q, id) ==
    Key(q, id) \in DOMAIN r_payload /\ r_payload[Key(q, id)].payload # None

\* _resolve_item_queue: the input queue, then the queue origin_queue:{id}
\* names, then the output queue; None when none holds the item (the method
\* raises)
redis_resolve_item_queue(id) ==
    IF redis_hexists_payload(queue_name, id) THEN queue_name
    ELSE IF id \in DOMAIN r_origin_queue /\ redis_hexists_payload(r_origin_queue[id], id)
         THEN r_origin_queue[id]
    ELSE IF redis_hexists_payload(output_queue_name, id) THEN output_queue_name
    ELSE None

\* The commands of a payload call (the HEXISTS and GET of _resolve_item_queue,
\* then HGET or EXISTS and HSET) are taken together: these calls are made by
\* one caller, one call at a time.
redis_load_payload(w, id) ==
    /\ backend = "redis" /\ pc[w] = "idle"
    /\ LET q == redis_resolve_item_queue(id) IN
        IF q = None
        THEN Raises(w, "load_payload", id, NotFound)
        ELSE Returns(w, "load_payload", id, Loads(r_payload[Key(q, id)].payload))
    /\ Return(w)
    /\ UNCHANGED <<backend, in_transaction, database, parent_id, files_store, attached, passed, recovered, now, nextId, store, history>>

redis_save_payload(w, id, payload) ==
    /\ backend = "redis" /\ pc[w] = "idle"
    /\ LET q == redis_resolve_item_queue(id) IN
        IF q = None
        THEN /\ Raises(w, "save_payload", id, NotFound)
             /\ UNCHANGED passed
             /\ UNCHANGED <<r_payload, r_expire>>
        ELSE /\ r_payload' = HSet(r_payload, Key(q, id), "payload", Dumps(payload),
                                  EmptyPayloadHash)
             /\ r_expire' = ExpireOnSave(r_expire, q, id, now)
             /\ Returns(w, "save_payload", id, PyNone)
             /\ passed' = Put(passed, id, Passed("save_payload", payload))
    /\ Return(w)
    /\ UNCHANGED <<backend, in_transaction, database, parent_id, files_store, attached, recovered, now, nextId, work_items, collections, r_pending,
                   r_processing, r_done, r_failed, r_timestamps, r_exception, r_state,
                   r_origin_queue, history>>

\* ---- recover_orphaned_work_items
\* the loop goes on to its next item, or the call returns
redis_recover_next(w, recovered_ids) ==
    IF Tail(loc[w].items) = <<>>
    THEN /\ recovered' = recovered_ids
         /\ Return(w)
    ELSE /\ Goto(w, "recover_hget",
                 [loc[w] EXCEPT !.items = Tail(@), !.recovered_ids = recovered_ids])
         /\ UNCHANGED recovered

redis_recover_lrange(w, timeout) ==
    /\ backend = "redis" /\ pc[w] = "idle"
    /\ IF r_processing[queue_name] = <<>>
       THEN /\ recovered' = <<>>
            /\ Return(w)
       ELSE /\ Goto(w, "recover_hget",
                    [NoLoc EXCEPT !.items = r_processing[queue_name],
                                  !.cutoff = now - timeout])
            /\ UNCHANGED recovered
    /\ UNCHANGED <<backend, in_transaction, database, parent_id, files_store, attached, passed, result, now, nextId, store, history>>

redis_recover_hget(w) ==
    /\ backend = "redis" /\ pc[w] = "recover_hget"
    /\ LET id == Head(loc[w].items)
           reserved_at == HGetReservedAt(r_timestamps, Key(queue_name, id)) IN
        IF redis_is_orphan(reserved_at, loc[w].cutoff)
        THEN Goto(w, "recover_lrem", loc[w]) /\ UNCHANGED recovered
        ELSE redis_recover_next(w, loc[w].recovered_ids)
    /\ UNCHANGED <<backend, in_transaction, database, parent_id, files_store, attached, passed, result, now, nextId, store, history>>

redis_recover_lrem(w) ==
    /\ backend = "redis" /\ pc[w] = "recover_lrem"
    /\ r_processing' = [r_processing EXCEPT ![queue_name] = LRem(@, Head(loc[w].items))]
    /\ Goto(w, "recover_lpush", loc[w])
    /\ UNCHANGED <<backend, in_transaction, database, r_expire, parent_id, files_store, attached, passed, recovered, result, now, nextId, work_items, collections, r_pending, r_done,
                   r_failed, r_payload, r_timestamps, r_exception, r_state,
                   r_origin_queue, history>>

redis_recover_lpush(w) ==
    /\ backend = "redis" /\ pc[w] = "recover_lpush"
    /\ r_pending' = [r_pending EXCEPT ![queue_name] = LPush(@, Head(loc[w].items))]
    /\ Goto(w, "recover_hdel", loc[w])
    /\ UNCHANGED <<backend, in_transaction, database, r_expire, parent_id, files_store, attached, passed, recovered, result, now, nextId, work_items, collections, r_processing, r_done,
                   r_failed, r_payload, r_timestamps, r_exception, r_state,
                   r_origin_queue, history>>

redis_recover_hdel(w) ==
    /\ backend = "redis" /\ pc[w] = "recover_hdel"
    /\ r_timestamps' = HDel(r_timestamps, Key(queue_name, Head(loc[w].items)),
                            "reserved_at", EmptyTimestampsHash)
    /\ r_expire' = IF Key(queue_name, Head(loc[w].items)) \in DOMAIN r_timestamps'
                   THEN r_expire
                   ELSE Persist(r_expire, ExpireKey("timestamps", queue_name,
                                                    Head(loc[w].items)))
    /\ Goto(w, "recover_hset_state", loc[w])
    /\ UNCHANGED <<backend, in_transaction, database, parent_id, files_store, attached, passed, recovered, result, now, nextId, work_items, collections, r_pending,
                   r_processing, r_done, r_failed, r_payload, r_exception, r_state,
                   r_origin_queue, history>>

redis_recover_hset_state(w) ==
    /\ backend = "redis" /\ pc[w] = "recover_hset_state"
    /\ r_payload' = HSet(r_payload, Key(queue_name, Head(loc[w].items)), "state",
                         PENDING, EmptyPayloadHash)
    /\ redis_recover_next(w, Append(loc[w].recovered_ids, Head(loc[w].items)))
    /\ UNCHANGED <<backend, in_transaction, database, r_expire, parent_id, files_store, attached, passed, result, now, nextId, work_items, collections, r_pending,
                   r_processing, r_done, r_failed, r_timestamps, r_exception, r_state,
                   r_origin_queue, history>>

\* ============================================================ files
\* the call returned: the file is attached with the content of the call
Attach(id, name, content) == attached' = Put(attached, <<id, name>>, content)

\* ---- SQLite: add_file
\* filepath.exists(): the call raises, or goes on to write the file. The
\* stat of a name longer than NAME_MAX is an OSError that exists() passes on.
sqlite_add_file(w, id, name, content) ==
    /\ backend = "sqlite" /\ pc[w] = "idle"
    /\ IF NameLength(name) > NAME_MAX
       THEN /\ RaisesFile(w, "add_file", id, name, content, ENAMETOOLONG)
            /\ Return(w)
       ELSE IF Filepath(id, name) \in DOMAIN filesystem
       THEN /\ RaisesFile(w, "add_file", id, name, content, FileExists)
            /\ Return(w)
       ELSE /\ Goto(w, "sqlite_add_write", [NoLoc EXCEPT !.id = id, !.name = name,
                                                        !.content = content])
            /\ UNCHANGED result
    /\ UNCHANGED <<files_store, attached, collections>>
    /\ UNCHANGED <<backend, in_transaction, database, parent_id, passed, recovered, now, nextId, work_items, redis, history>>

\* filepath.write_bytes(content); item_dir exists, a directory under it that
\* a name with a slash names does not
sqlite_add_write(w) ==
    /\ backend = "sqlite" /\ pc[w] = "sqlite_add_write"
    /\ IF HasSlash(loc[w].name)
       THEN /\ RaisesFile(w, "add_file", loc[w].id, loc[w].name, loc[w].content, ENOENT)
            /\ Return(w)
            /\ UNCHANGED filesystem
       ELSE /\ filesystem' = Put(filesystem, Filepath(loc[w].id, loc[w].name),
                                 loc[w].content)
            /\ Goto(w, "sqlite_add_insert", loc[w])
            /\ UNCHANGED result
    /\ UNCHANGED <<work_item_files, r_files, gridfs, attached, collections>>
    /\ UNCHANGED <<backend, in_transaction, database, parent_id, passed, recovered, now, nextId, work_items, redis, history>>

\* the INSERT violates PRIMARY KEY (work_item_id, filename), filepath UNIQUE
\* or the FOREIGN KEY to work_items(id): sqlite3.IntegrityError
sqlite_insert_file_fails(id, name) ==
    \/ <<id, name>> \in DOMAIN work_item_files
    \/ \E key \in DOMAIN work_item_files : work_item_files[key] = Filepath(id, name)
    \/ id \notin DOMAIN work_items

\* INSERT INTO work_item_files, commit: the call returns, or goes on to the
\* handler of the IntegrityError
sqlite_add_insert(w) ==
    /\ backend = "sqlite" /\ pc[w] = "sqlite_add_insert"
    /\ LET id == loc[w].id
           name == loc[w].name
       IN IF sqlite_busy(w)
          \* an OperationalError, which the handler of the IntegrityError lets by
          THEN /\ RaisesFile(w, "add_file", id, name, loc[w].content, DatabaseLocked)
               /\ Return(w)
               /\ UNCHANGED <<work_item_files, attached, in_transaction>>
          ELSE IF sqlite_insert_file_fails(id, name)
          THEN /\ Goto(w, "sqlite_add_unlink", loc[w])
               /\ Uncommitted(w)
               /\ UNCHANGED <<work_item_files, attached, result>>
          ELSE /\ work_item_files' = Put(work_item_files, <<id, name>>, Filepath(id, name))
               /\ ReturnsFile(w, "add_file", id, name, loc[w].content, {})
               /\ Attach(id, name, loc[w].content)
               /\ Commit(w)
               /\ Return(w)
    /\ UNCHANGED <<filesystem, r_files, gridfs, collections>>
    /\ UNCHANGED <<backend, database, parent_id, passed, recovered, now, nextId, work_items, redis, history>>

\* filepath.unlink(missing_ok=True), then raise ValueError("File already exists")
sqlite_add_unlink(w) ==
    /\ backend = "sqlite" /\ pc[w] = "sqlite_add_unlink"
    /\ LET id == loc[w].id
           name == loc[w].name
       IN /\ filesystem' = [path \in DOMAIN filesystem \ {Filepath(id, name)} |->
                                filesystem[path]]
          /\ RaisesFile(w, "add_file", id, name, loc[w].content, FileExists)
    /\ Return(w)
    /\ UNCHANGED <<work_item_files, r_files, gridfs, attached, collections>>
    /\ UNCHANGED <<backend, in_transaction, database, parent_id, passed, recovered, now, nextId, work_items, redis, history>>

\* ---- SQLite: list_files, get_file
\* SELECT filename FROM work_item_files WHERE work_item_id = ?
sqlite_select_filenames(files, id) ==
    {key[2] : key \in {k \in DOMAIN files : k[1] = id}}

\* list_files(item_id): the filenames of the rows selected
sqlite_list_files(w, id) ==
    /\ backend = "sqlite" /\ pc[w] = "idle"
    /\ ReturnsFile(w, "list_files", id, None, NoBytes,
                   sqlite_select_filenames(work_item_files, id))
    /\ Return(w)
    /\ UNCHANGED <<files_store, attached, collections>>
    /\ UNCHANGED <<backend, in_transaction, database, parent_id, passed, recovered, now, nextId, work_items, redis, history>>

\* SELECT filepath ... WHERE work_item_id = ? AND filename = ?, then
\* filepath.exists() and filepath.read_bytes()
sqlite_get_file(w, id, name) ==
    /\ backend = "sqlite" /\ pc[w] = "idle"
    /\ IF <<id, name>> \notin DOMAIN work_item_files
       THEN RaisesFile(w, "get_file", id, name, NoBytes, FileNotFound)
       ELSE IF work_item_files[<<id, name>>] \notin DOMAIN filesystem
       THEN RaisesFile(w, "get_file", id, name, NoBytes, FileMissing)
       ELSE ReturnsFile(w, "get_file", id, name, filesystem[work_item_files[<<id, name>>]], {})
    /\ Return(w)
    /\ UNCHANGED <<files_store, attached, collections>>
    /\ UNCHANGED <<backend, in_transaction, database, parent_id, passed, recovered, now, nextId, work_items, redis, history>>

\* ---- DocumentDB: add_file
\* document["files"] of the item in the collection of its queue
docdb_files(q, id) == collections[q][id].files

\* _resolve_item_queue, then find_one({item_id}, {files: 1}) and
\* name in document.get("files", {}): the call raises, or goes on to store the
\* content
docdb_add_file(w, id, name, content) ==
    /\ backend = "docdb" /\ pc[w] = "idle"
    /\ LET q == docdb_resolve_item_queue(id) IN
        IF add_file_invalid(name, content) # None
        THEN /\ RaisesFile(w, "add_file", id, name, content,
                           add_file_invalid(name, content))
             /\ Return(w)
        ELSE IF q = None
        THEN /\ RaisesFile(w, "add_file", id, name, content, NotFound)
             /\ Return(w)
        ELSE IF name \in FilesKeys(docdb_files(q, id))
        THEN /\ RaisesFile(w, "add_file", id, name, content, FileExists)
             /\ Return(w)
        ELSE /\ Goto(w, IF content.len > INLINE_FILE_THRESHOLD
                        THEN "docdb_add_put" ELSE "docdb_add_update",
                     [NoLoc EXCEPT !.id = id, !.name = name, !.content = content,
                                   !.queue = q])
             /\ UNCHANGED result
    /\ UNCHANGED <<files_store, attached, collections>>
    /\ UNCHANGED <<backend, in_transaction, database, parent_id, passed, recovered, now, nextId, work_items, redis, history>>

\* the ObjectId of a new GridFS object: one that names no object and that no
\* document or call holds
gridfs_new_id ==
    LET held == DOMAIN gridfs
                \cup {loc[w].gridfs_id : w \in Workers}
                \cup UNION {UNION {{collections[q][i].files[path].gridfs_id :
                                        path \in DOMAIN collections[q][i].files} :
                                    i \in DOMAIN collections[q]} : q \in StoredQueues}
    IN CHOOSE n \in 1..(Cardinality(held) + 1) : n \notin held

\* gridfs.put(content, ...): a new object, its id kept for the document
docdb_add_put(w) ==
    /\ backend = "docdb" /\ pc[w] = "docdb_add_put"
    /\ LET gridfs_id == gridfs_new_id IN
        /\ gridfs' = Put(gridfs, gridfs_id, loc[w].content)
        /\ Goto(w, "docdb_add_update", [loc[w] EXCEPT !.gridfs_id = gridfs_id])
    /\ UNCHANGED <<work_item_files, filesystem, r_files, attached, result, collections>>
    /\ UNCHANGED <<backend, in_transaction, database, parent_id, passed, recovered, now, nextId, work_items, redis, history>>

\* update_one({item_id}, {$set: {f"files.{name}": file_data}})
docdb_add_update(w) ==
    /\ backend = "docdb" /\ pc[w] = "docdb_add_update"
    /\ LET id == loc[w].id
           q == loc[w].queue
           file_data == IF loc[w].content.len > INLINE_FILE_THRESHOLD
                        THEN GridfsData(loc[w].gridfs_id)
                        ELSE InlineData(loc[w].content)
       IN /\ collections' = [collections EXCEPT ![q][id].files =
                                Put(@, FieldPath(loc[w].name), file_data)]
          /\ ReturnsFile(w, "add_file", id, loc[w].name, loc[w].content, {})
          /\ Attach(id, loc[w].name, loc[w].content)
    /\ Return(w)
    /\ UNCHANGED files_store
    /\ UNCHANGED <<backend, in_transaction, database, parent_id, passed, recovered, now, nextId, work_items, redis, history>>

\* ---- DocumentDB: list_files, get_file
\* list(document.get("files", {}).keys())
docdb_list_files(w, id) ==
    /\ backend = "docdb" /\ pc[w] = "idle"
    /\ LET q == docdb_resolve_item_queue(id) IN
        IF q = None
        THEN RaisesFile(w, "list_files", id, None, NoBytes, NotFound)
        ELSE ReturnsFile(w, "list_files", id, None, NoBytes, FilesKeys(docdb_files(q, id)))
    /\ Return(w)
    /\ UNCHANGED <<files_store, attached, collections>>
    /\ UNCHANGED <<backend, in_transaction, database, parent_id, passed, recovered, now, nextId, work_items, redis, history>>

\* document["files"][name]: a str is decoded, a dict with a gridfs_id is read
\* from GridFS, anything else is a ValueError
docdb_get_file(w, id, name) ==
    /\ backend = "docdb" /\ pc[w] = "idle"
    /\ LET q == docdb_resolve_item_queue(id) IN
        IF q = None
        THEN RaisesFile(w, "get_file", id, name, NoBytes, NotFound)
        ELSE IF name \notin FilesKeys(docdb_files(q, id))
        THEN RaisesFile(w, "get_file", id, name, NoBytes, FileNotFound)
        ELSE IF <<"files", name>> \notin DOMAIN docdb_files(q, id)
        THEN RaisesFile(w, "get_file", id, name, NoBytes, "Invalid file data format")
        ELSE LET file_data == docdb_files(q, id)[<<"files", name>>] IN
             ReturnsFile(w, "get_file", id, name,
                         IF file_data.type = "str" THEN B64Decode(file_data.text)
                         ELSE gridfs[file_data.gridfs_id], {})
    /\ Return(w)
    /\ UNCHANGED <<files_store, attached, collections>>
    /\ UNCHANGED <<backend, in_transaction, database, parent_id, passed, recovered, now, nextId, work_items, redis, history>>

\* ---- Redis: add_file
\* the hash {queue}:files:{id}; a missing key is an empty hash
redis_files(q, id) == IF Key(q, id) \in DOMAIN r_files THEN r_files[Key(q, id)] ELSE <<>>

\* _resolve_item_queue, then HEXISTS {queue}:files:{id} name: the call raises,
\* or goes on to store the content
redis_add_file(w, id, name, content) ==
    /\ backend = "redis" /\ pc[w] = "idle"
    /\ LET q == redis_resolve_item_queue(id) IN
        IF add_file_invalid(name, content) # None
        THEN /\ RaisesFile(w, "add_file", id, name, content,
                           add_file_invalid(name, content))
             /\ Return(w)
        ELSE IF q = None
        THEN /\ RaisesFile(w, "add_file", id, name, content, NotFound)
             /\ Return(w)
        ELSE IF name \in DOMAIN redis_files(q, id)
        THEN /\ RaisesFile(w, "add_file", id, name, content, FileExists)
             /\ Return(w)
        ELSE /\ Goto(w, IF content.len > INLINE_FILE_THRESHOLD
                        THEN "redis_add_write" ELSE "redis_add_hset",
                     [NoLoc EXCEPT !.id = id, !.name = name, !.content = content,
                                   !.queue = q])
             /\ UNCHANGED result
    /\ UNCHANGED <<files_store, attached, collections>>
    /\ UNCHANGED <<backend, in_transaction, database, parent_id, passed, recovered, now, nextId, work_items, redis, history>>

\* filepath.write_bytes(content) of a large file
redis_add_write(w) ==
    /\ backend = "redis" /\ pc[w] = "redis_add_write"
    /\ filesystem' = Put(filesystem, Filepath(loc[w].id, loc[w].name), loc[w].content)
    /\ Goto(w, "redis_add_hset", loc[w])
    /\ UNCHANGED <<work_item_files, r_files, gridfs, attached, result, collections>>
    /\ UNCHANGED <<backend, in_transaction, database, parent_id, passed, recovered, now, nextId, work_items, redis, history>>

\* HSET {queue}:files:{id} name reference, the reference or the base64 text
redis_add_hset(w) ==
    /\ backend = "redis" /\ pc[w] = "redis_add_hset"
    /\ LET id == loc[w].id
           q == loc[w].queue
           file_ref == IF loc[w].content.len > INLINE_FILE_THRESHOLD
                       THEN FileRef(Filepath(id, loc[w].name))
                       ELSE InlineRef(loc[w].content)
       IN /\ r_files' = Put(r_files, Key(q, id), Put(redis_files(q, id), loc[w].name, file_ref))
          /\ r_expire' = Expire(r_expire, ExpireKey("files", q, id), now, SevenDays)
          /\ ReturnsFile(w, "add_file", id, loc[w].name, loc[w].content, {})
          /\ Attach(id, loc[w].name, loc[w].content)
    /\ Return(w)
    /\ UNCHANGED <<work_item_files, filesystem, gridfs, collections>>
    /\ UNCHANGED <<backend, in_transaction, database, parent_id, passed, recovered, now, nextId, work_items, r_pending,
                   r_processing, r_done, r_failed, r_payload, r_timestamps, r_exception, r_state,
                   r_origin_queue, history>>

\* ---- Redis: list_files, get_file
\* HKEYS {queue}:files:{id}
redis_list_files(w, id) ==
    /\ backend = "redis" /\ pc[w] = "idle"
    /\ LET q == redis_resolve_item_queue(id) IN
        IF q = None
        THEN RaisesFile(w, "list_files", id, None, NoBytes, NotFound)
        ELSE ReturnsFile(w, "list_files", id, None, NoBytes, DOMAIN redis_files(q, id))
    /\ Return(w)
    /\ UNCHANGED <<files_store, attached, collections>>
    /\ UNCHANGED <<backend, in_transaction, database, parent_id, passed, recovered, now, nextId, work_items, redis, history>>

\* HGET {queue}:files:{id} name: a file:// reference is read from the
\* filesystem, anything else is decoded
redis_get_file(w, id, name) ==
    /\ backend = "redis" /\ pc[w] = "idle"
    /\ LET q == redis_resolve_item_queue(id) IN
        IF q = None
        THEN RaisesFile(w, "get_file", id, name, NoBytes, NotFound)
        ELSE IF name \notin DOMAIN redis_files(q, id)
        THEN RaisesFile(w, "get_file", id, name, NoBytes, FileNotFound)
        ELSE LET file_ref == redis_files(q, id)[name] IN
             IF file_ref.scheme = "file://"
             THEN IF file_ref.path \notin DOMAIN filesystem
                  THEN RaisesFile(w, "get_file", id, name, NoBytes, FileNotFound)
                  ELSE ReturnsFile(w, "get_file", id, name, filesystem[file_ref.path], {})
             ELSE ReturnsFile(w, "get_file", id, name, B64Decode(file_ref.text), {})
    /\ Return(w)
    /\ UNCHANGED <<files_store, attached, collections>>
    /\ UNCHANGED <<backend, in_transaction, database, parent_id, passed, recovered, now, nextId, work_items, redis, history>>

\* ---- remove_file
\* The commands of a remove_file call are taken together: these calls are
\* made by one caller, one call at a time.
\* a function without one of its keys
Without(f, k) == [x \in DOMAIN f \ {k} |-> f[x]]

\* the call returned: the file is attached no more
Detach(id, name) == attached' = Without(attached, <<id, name>>)

\* SELECT filepath ..., DELETE FROM work_item_files ..., commit, then
\* filepath.unlink(missing_ok=True)
sqlite_remove_file(w, id, name) ==
    /\ backend = "sqlite" /\ pc[w] = "idle"
    /\ IF <<id, name>> \notin DOMAIN work_item_files
       THEN /\ RaisesFile(w, "remove_file", id, name, NoBytes, FileNotFound)
            /\ UNCHANGED <<work_item_files, filesystem, attached, in_transaction>>
       ELSE IF sqlite_busy(w)
       THEN /\ RaisesFile(w, "remove_file", id, name, NoBytes, DatabaseLocked)
            /\ UNCHANGED <<work_item_files, filesystem, attached, in_transaction>>
       ELSE /\ work_item_files' = Without(work_item_files, <<id, name>>)
            /\ filesystem' = Without(filesystem, work_item_files[<<id, name>>])
            /\ ReturnsFile(w, "remove_file", id, name, NoBytes, {})
            /\ Detach(id, name)
            /\ Commit(w)
    /\ Return(w)
    /\ UNCHANGED <<r_files, gridfs, collections>>
    /\ UNCHANGED <<backend, database, parent_id, passed, recovered, now, nextId, work_items, redis, history>>

\* find_one and name in document.get("files", {}), gridfs.delete of a large
\* file, then update_one({item_id}, {$unset: {f"files.{name}": ""}})
docdb_remove_file(w, id, name) ==
    /\ backend = "docdb" /\ pc[w] = "idle"
    /\ LET q == docdb_resolve_item_queue(id) IN
        IF q = None \/ name \notin FilesKeys(docdb_files(q, id))
        THEN /\ RaisesFile(w, "remove_file", id, name, NoBytes,
                           IF q = None THEN NotFound ELSE FileNotFound)
             /\ UNCHANGED <<gridfs, collections, attached>>
        ELSE LET files == docdb_files(q, id)
                 leaf == <<"files", name>> \in DOMAIN files
             IN /\ gridfs' = IF leaf /\ files[<<"files", name>>].type = "dict"
                             THEN Without(gridfs, files[<<"files", name>>].gridfs_id)
                             ELSE gridfs
                /\ collections' = [collections EXCEPT ![q][id].files =
                                      Without(@, FieldPath(name))]
                /\ ReturnsFile(w, "remove_file", id, name, NoBytes, {})
                /\ Detach(id, name)
    /\ Return(w)
    /\ UNCHANGED <<work_item_files, filesystem, r_files>>
    /\ UNCHANGED <<backend, in_transaction, database, parent_id, passed, recovered, now, nextId, work_items, redis, history>>

\* HGET {queue}:files:{id} name, unlink of a file:// reference that exists,
\* then HDEL
redis_remove_file(w, id, name) ==
    /\ backend = "redis" /\ pc[w] = "idle"
    /\ LET q == redis_resolve_item_queue(id) IN
        IF q = None \/ name \notin DOMAIN redis_files(q, id)
        THEN /\ RaisesFile(w, "remove_file", id, name, NoBytes,
                           IF q = None THEN NotFound ELSE FileNotFound)
             /\ UNCHANGED <<r_files, filesystem, attached>>
        ELSE LET file_ref == redis_files(q, id)[name] IN
             /\ filesystem' = IF file_ref.scheme = "file://"
                              THEN Without(filesystem, file_ref.path)
                              ELSE filesystem
             /\ r_files' = Put(r_files, Key(q, id), Without(redis_files(q, id), name))
             /\ ReturnsFile(w, "remove_file", id, name, NoBytes, {})
             /\ Detach(id, name)
    /\ Return(w)
    /\ UNCHANGED <<work_item_files, gridfs, collections>>
    /\ UNCHANGED <<backend, in_transaction, database, parent_id, passed, recovered, now, nextId, work_items, redis, history>>

\* ---- seed_input with files
\* an element of the files argument of seed_input: (name, content)
SeedFile(name, content) == [name |-> name, content |-> content]

\* what the add_file call of seed_input raises for the file: the ValueError
\* of its validation, NotFound, FileExists, or None when it stores the file
docdb_seed_file_error(id, file) ==
    LET q == docdb_resolve_item_queue(id) IN
    IF add_file_invalid(file.name, file.content) # None
    THEN add_file_invalid(file.name, file.content)
    ELSE IF q = None THEN NotFound
    ELSE IF file.name \in FilesKeys(docdb_files(q, id)) THEN FileExists
    ELSE None

\* seed_input(payload, files=files) up to its insert_one: the document is in
\* the collection, PENDING and with no files, and the loop over files begins
docdb_seed_input_files(w, files) ==
    /\ backend = "docdb" /\ pc[w] = "idle"
    /\ nextId < MaxItems /\ files # <<>>
    /\ nextId' = nextId + 1
    /\ collections' = [collections EXCEPT ![queue_name] =
            Put(@, nextId + 1, docdb_new_document(@, queue_name, now, payload_data(PyNone)))]
    /\ Goto(w, "docdb_seed_add_file", [NoLoc EXCEPT !.id = nextId + 1, !.items = files])
    /\ UNCHANGED <<backend, in_transaction, database, parent_id, files_store, attached, passed, recovered, result, now, work_items, redis, history>>

\* one turn of "for name, content in files: self.add_file(item_id, name,
\* content)": the commands of add_file write the files of this item only and
\* are taken together. An exception of add_file ends seed_input.
docdb_seed_add_file(w) ==
    /\ backend = "docdb" /\ pc[w] = "docdb_seed_add_file"
    /\ LET id == loc[w].id
           file == Head(loc[w].items)
           q == docdb_resolve_item_queue(id)
           large == file.content.len > INLINE_FILE_THRESHOLD
           gridfs_id == gridfs_new_id
       IN IF docdb_seed_file_error(id, file) # None
          THEN /\ Raises(w, "seed_input", id, docdb_seed_file_error(id, file))
               /\ Return(w)
               /\ UNCHANGED <<collections, gridfs, attached>>
          ELSE /\ gridfs' = IF large THEN Put(gridfs, gridfs_id, file.content) ELSE gridfs
               /\ collections' = [collections EXCEPT ![q][id].files =
                        Put(@, FieldPath(file.name),
                            IF large THEN GridfsData(gridfs_id)
                            ELSE InlineData(file.content))]
               /\ Attach(id, file.name, file.content)
               /\ IF Tail(loc[w].items) = <<>>
                  THEN Returns(w, "seed_input", id, PyNone) /\ Return(w)
                  ELSE /\ Goto(w, "docdb_seed_add_file", [loc[w] EXCEPT !.items = Tail(@)])
                       /\ UNCHANGED result
    /\ UNCHANGED <<work_item_files, filesystem, r_files>>
    /\ UNCHANGED <<backend, in_transaction, database, parent_id, passed, recovered, now, nextId, work_items, redis, history>>

\* the same of the Redis add_file
redis_seed_file_error(id, file) ==
    LET q == redis_resolve_item_queue(id) IN
    IF add_file_invalid(file.name, file.content) # None
    THEN add_file_invalid(file.name, file.content)
    ELSE IF q = None THEN NotFound
    ELSE IF file.name \in DOMAIN redis_files(q, id) THEN FileExists
    ELSE None

\* seed_input(payload, files=files) up to its LPUSH: the id is on the pending
\* list, with no files, and the loop over files begins
redis_seed_input_files(w, files) ==
    /\ backend = "redis" /\ pc[w] = "idle"
    /\ nextId < MaxItems /\ files # <<>>
    /\ nextId' = nextId + 1
    /\ r_payload' = Put(r_payload, Key(queue_name, nextId + 1),
                        redis_new_payload_hash(queue_name, PyNone))
    /\ r_timestamps' = HSet(r_timestamps, Key(queue_name, nextId + 1), "created_at",
                            now, EmptyTimestampsHash)
    /\ r_pending' = [r_pending EXCEPT ![queue_name] = LPush(@, nextId + 1)]
    /\ r_expire' = Expire(Expire(r_expire, ExpireKey("payload", queue_name, nextId + 1),
                                 now, SevenDays),
                          ExpireKey("timestamps", queue_name, nextId + 1), now, SevenDays)
    /\ Goto(w, "redis_seed_add_file", [NoLoc EXCEPT !.id = nextId + 1, !.items = files])
    /\ UNCHANGED <<backend, in_transaction, database, parent_id, files_store, attached, passed, recovered, result, now, work_items, collections, r_processing,
                   r_done, r_failed, r_exception, r_state, r_origin_queue, history>>

\* one turn of the loop over files, the commands of add_file taken together
redis_seed_add_file(w) ==
    /\ backend = "redis" /\ pc[w] = "redis_seed_add_file"
    /\ LET id == loc[w].id
           file == Head(loc[w].items)
           q == redis_resolve_item_queue(id)
           large == file.content.len > INLINE_FILE_THRESHOLD
       IN IF redis_seed_file_error(id, file) # None
          THEN /\ Raises(w, "seed_input", id, redis_seed_file_error(id, file))
               /\ Return(w)
               /\ UNCHANGED <<r_files, r_expire, filesystem, attached>>
          ELSE /\ filesystem' = IF large
                                THEN Put(filesystem, Filepath(id, file.name), file.content)
                                ELSE filesystem
               /\ r_files' = Put(r_files, Key(q, id),
                                 Put(redis_files(q, id), file.name,
                                     IF large THEN FileRef(Filepath(id, file.name))
                                     ELSE InlineRef(file.content)))
               /\ r_expire' = Expire(r_expire, ExpireKey("files", q, id), now, SevenDays)
               /\ Attach(id, file.name, file.content)
               /\ IF Tail(loc[w].items) = <<>>
                  THEN Returns(w, "seed_input", id, PyNone) /\ Return(w)
                  ELSE /\ Goto(w, "redis_seed_add_file", [loc[w] EXCEPT !.items = Tail(@)])
                       /\ UNCHANGED result
    /\ UNCHANGED <<work_item_files, gridfs, collections>>
    /\ UNCHANGED <<backend, in_transaction, database, parent_id, passed, recovered, now, nextId, work_items, r_pending,
                   r_processing, r_done, r_failed, r_payload, r_timestamps, r_exception, r_state,
                   r_origin_queue, history>>

\* ============================================================ environment
\* An adapter configured for the queue foreign_queue_name, on the same
\* database, puts an item on its queue: the INSERT, insert_one or HSET and
\* LPUSH of its create_output / seed_input, with its own queue name.
ForeignCreate ==
    /\ nextId < MaxItems
    /\ nextId' = nextId + 1
    /\ CASE backend = "sqlite" ->
            /\ \A v \in Workers : ~in_transaction[v]
            /\ work_items' = Put(work_items, nextId + 1,
                                 sqlite_new_row(work_items, foreign_queue_name, now,
                                                sqlite_payload_json(PyNone)))
            /\ UNCHANGED <<collections, redis>>
         [] backend = "docdb" ->
            /\ collections' = [collections EXCEPT ![foreign_queue_name] =
                    Put(@, nextId + 1, docdb_new_document(@, foreign_queue_name, now,
                                                          payload_data(PyNone)))]
            /\ UNCHANGED <<work_items, redis>>
         [] backend = "redis" ->
            /\ r_payload' = Put(r_payload, Key(foreign_queue_name, nextId + 1),
                                redis_new_payload_hash(foreign_queue_name, PyNone))
            /\ r_timestamps' = HSet(r_timestamps, Key(foreign_queue_name, nextId + 1),
                                    "created_at", now, EmptyTimestampsHash)
            /\ r_pending' = [r_pending EXCEPT ![foreign_queue_name] = LPush(@, nextId + 1)]
            /\ r_expire' = Expire(Expire(r_expire,
                                         ExpireKey("payload", foreign_queue_name, nextId + 1),
                                         now, SevenDays),
                                  ExpireKey("timestamps", foreign_queue_name, nextId + 1),
                                  now, SevenDays)
            /\ UNCHANGED <<work_items, collections, r_processing, r_done, r_failed,
                           r_exception, r_state, r_origin_queue>>
    /\ UNCHANGED <<backend, in_transaction, database, parent_id, files_store, attached, passed, recovered, result, now, pc, loc, history>>

\* An adapter configured for queue q, on the same database, reserves the
\* oldest PENDING item of its queue: its reserve_input, with its own queue
\* name.
ForeignReserve(q) ==
    /\ CASE backend = "sqlite" ->
            /\ \A v \in Workers : ~in_transaction[v]
            /\ \E id \in sqlite_select_oldest(work_items, q) :
                    work_items' = [work_items EXCEPT ![id] = sqlite_reserve_row(@, now)]
            /\ UNCHANGED <<collections, redis>>
         [] backend = "docdb" ->
            /\ \E id \in docdb_find_oldest(collections[q], q) :
                    collections' = [collections EXCEPT ![q][id] =
                                        docdb_reserve_document(@, now)]
            /\ UNCHANGED <<work_items, redis>>
         [] backend = "redis" ->
            /\ r_pending[q] # <<>>
            /\ LET id == RPop(r_pending[q]) IN
                /\ r_pending' = [r_pending EXCEPT ![q] = RPopRest(@)]
                /\ r_processing' = [r_processing EXCEPT ![q] = LPush(@, id)]
                /\ r_timestamps' = HSet(r_timestamps, Key(q, id), "reserved_at", now,
                                        EmptyTimestampsHash)
                /\ r_payload' = HSet(r_payload, Key(q, id), "state", RESERVED,
                                     EmptyPayloadHash)
            /\ UNCHANGED <<work_items, collections, r_done, r_failed, r_exception, r_state,
                           r_origin_queue, r_expire>>
    /\ UNCHANGED <<backend, in_transaction, database, parent_id, files_store, attached, passed, recovered, result, now, nextId, pc, loc, history>>

\* the ids of the items of the foreign queue
ForeignIds ==
    CASE backend = "sqlite" ->
            {i \in DOMAIN work_items : work_items[i].queue_name = foreign_queue_name}
      [] backend = "docdb" -> DOMAIN collections[foreign_queue_name]
      [] backend = "redis" -> {k[2] : k \in {x \in DOMAIN r_payload : x[1] = foreign_queue_name}}

\* time passes
Tick ==
    /\ now < 1 + MaxTicks * TickMinutes
    /\ now' = now + TickMinutes
    /\ UNCHANGED <<backend, in_transaction, database, parent_id, files_store, attached, passed, recovered, result, nextId, store, pc, loc, history>>

\* the positions of reserve_input after its first command
reserve_labels == {"reserve_hset_reserved_at", "reserve_hset_state"}

\* a worker process dies in the middle of reserve_input: the call goes no further
Crash(w) ==
    /\ pc[w] \in reserve_labels
    /\ crashed' = crashed \cup {[id |-> loc[w].id, at |-> now]}
    /\ pc' = [pc EXCEPT ![w] = "idle"]
    /\ loc' = [loc EXCEPT ![w] = NoLoc]
    /\ UNCHANGED <<backend, in_transaction, database, parent_id, files_store, attached, passed, recovered, result, now, nextId, store, returned, outputs, released>>

\* the state field of an item of the input queue, None when it has none
ItemState(id) ==
    CASE backend = "sqlite" ->
            IF id \in DOMAIN work_items /\ work_items[id].queue_name = queue_name
            THEN work_items[id].state ELSE None
      [] backend = "docdb" ->
            IF id \in DOMAIN collections[queue_name]
            THEN collections[queue_name][id].state ELSE None
      [] backend = "redis" ->
            IF Key(queue_name, id) \in DOMAIN r_payload
            THEN r_payload[Key(queue_name, id)].state ELSE None

\* a worker process dies between its reserve_input and its release_input
Abandon(id) ==
    /\ id \in Range(returned)
    /\ ItemState(id) = RESERVED
    /\ id \notin {c.id : c \in crashed}
    /\ crashed' = crashed \cup {[id |-> id, at |-> now]}
    /\ UNCHANGED <<backend, in_transaction, database, parent_id, files_store, attached, passed, recovered, result, now, nextId, store, pc, loc, returned, outputs,
                   released>>

\* ------------------------------------------------------------ the adapter
reserve_input(w) ==
    \/ sqlite_reserve_input(w)
    \/ docdb_reserve_input(w)
    \/ redis_reserve_rpoplpush(w)
    \/ redis_reserve_hset_reserved_at(w)
    \/ redis_reserve_hset_state(w)

\* release_input(item_id, state, exception), its arguments drawn from the sets
release_input(w, ids, states, exceptions) ==
    \/ \E id \in ids, state \in states, exception \in exceptions :
        \/ sqlite_release_input(w, id, state, exception)
        \/ docdb_release_input(w, id, state, exception)
        \/ redis_release_lrem(w, id, state, exception)
    \/ redis_release_terminal(w)
    \/ redis_release_hset_state(w)

\* create_output(parent_id, payload), its payload drawn from the set
create_output(w, payloads) ==
    \E payload \in payloads :
        \/ sqlite_create_output(w, payload)
        \/ docdb_create_output(w, payload)
        \/ redis_create_output(w, payload)

\* create_output(parent_id, payload), its arguments drawn from the sets
create_output_parent(w, parents, payloads) ==
    \E parent \in parents, payload \in payloads :
        \/ sqlite_create_output_parent(w, parent, payload)
        \/ docdb_create_output_parent(w, parent, payload)
        \/ redis_create_output_parent(w, parent, payload)

\* create_output(parent_id): the payload argument is omitted
NoPayload == {PyNone}

seed_input(w) ==
    \/ sqlite_upstream_create_output(w)
    \/ docdb_seed_input(w)
    \/ redis_seed_input(w)

\* seed_input(payload, callid=...) of the document backend, the callid drawn
\* from the set
seed_input_callid(w, callids) ==
    \E callid \in callids : docdb_seed_input_callid(w, callid)

\* load_payload(item_id), its id drawn from the set
load_payload(w, ids) ==
    \E id \in ids :
        \/ sqlite_load_payload(w, id)
        \/ docdb_load_payload(w, id)
        \/ redis_load_payload(w, id)

\* save_payload(item_id, payload), its arguments drawn from the sets
save_payload(w, ids, payloads) ==
    \E id \in ids, payload \in payloads :
        \/ sqlite_save_payload(w, id, payload)
        \/ docdb_save_payload(w, id, payload)
        \/ redis_save_payload(w, id, payload)

\* add_file(item_id, name, content), its arguments drawn from the sets
add_file(w, ids, names, contents) ==
    \E id \in ids, name \in names, content \in contents :
        \/ sqlite_add_file(w, id, name, content)
        \/ docdb_add_file(w, id, name, content)
        \/ redis_add_file(w, id, name, content)

\* the later commands of an add_file call
add_file_step(w) ==
    \/ sqlite_add_write(w) \/ sqlite_add_insert(w) \/ sqlite_add_unlink(w)
    \/ docdb_add_put(w) \/ docdb_add_update(w)
    \/ redis_add_write(w) \/ redis_add_hset(w)

\* list_files(item_id)
list_files(w, ids) ==
    \E id \in ids :
        \/ sqlite_list_files(w, id)
        \/ docdb_list_files(w, id)
        \/ redis_list_files(w, id)

\* get_file(item_id, name)
get_file(w, ids, names) ==
    \E id \in ids, name \in names :
        \/ sqlite_get_file(w, id, name)
        \/ docdb_get_file(w, id, name)
        \/ redis_get_file(w, id, name)

\* remove_file(item_id, name)
remove_file(w, ids, names) ==
    \E id \in ids, name \in names :
        \/ sqlite_remove_file(w, id, name)
        \/ docdb_remove_file(w, id, name)
        \/ redis_remove_file(w, id, name)

recover_orphaned_work_items(w) ==
    \/ sqlite_recover_orphaned_work_items(w)
    \/ \E timeout \in TimeoutArgs :
        \/ docdb_recover_find(w, timeout)
        \/ redis_recover_lrange(w, timeout)
    \/ docdb_recover_update(w)
    \/ redis_recover_hget(w)
    \/ redis_recover_lrem(w)
    \/ redis_recover_lpush(w)
    \/ redis_recover_hdel(w)
    \/ redis_recover_hset_state(w)

\* ---------------------------------------------------------- specifications
\* the state after construction but for the embedded database
InitRest ==
    /\ now = 1
    /\ collections = [q \in StoredQueues |-> <<>>]
    /\ r_pending = [q \in StoredQueues |-> <<>>]
    /\ r_processing = [q \in StoredQueues |-> <<>>]
    /\ r_done = [q \in StoredQueues |-> {}]
    /\ r_failed = [q \in StoredQueues |-> {}]
    /\ r_payload = <<>>
    /\ r_timestamps = <<>>
    /\ r_exception = <<>>
    /\ r_state = <<>>
    /\ r_origin_queue = <<>>
    /\ r_files = <<>>
    /\ r_expire = <<>>
    /\ gridfs = <<>>
    /\ pc = [w \in Workers |-> "idle"]
    /\ loc = [w \in Workers |-> NoLoc]
    /\ returned = <<>>
    /\ outputs = {}
    /\ released = {}
    /\ crashed = {}
    /\ recovered = <<>>
    /\ result = [w \in Workers |-> NoResult]
    /\ passed = <<>>
    /\ attached = <<>>
    /\ in_transaction = [w \in Workers |-> FALSE]
    /\ started = 0
    /\ phase = "seed"
    /\ calls = 0
    /\ empties = 0
    /\ before = NoSnapshot
    /\ faults = 0
    /\ attempt = [w \in Workers |-> NoAttempt]

\* no file is stored and no item has a parent
InitOther ==
    /\ work_item_files = <<>>
    /\ filesystem = <<>>
    /\ parent_id = <<>>
    /\ InitRest

\* the adapter is constructed on a new database: its tables are those of
\* version SCHEMA_VERSION and they are empty
Init ==
    /\ backend \in Backends
    /\ nextId = 0
    /\ work_items = <<>>
    /\ schema_version = 1..SCHEMA_VERSION
    /\ schema = 1..SCHEMA_VERSION
    /\ opening = [NotOpening EXCEPT !.pc = "open"]
    /\ InitOther

\* a step of worker w in operation op; a run makes at most budget calls
Bounded(w, op, budget) ==
    /\ pc[w] = "idle" => started < budget
    /\ op
    /\ started' = IF pc[w] = "idle" THEN started + 1 ELSE started

Call(w, op) == Bounded(w, op, MaxCalls)

\* the ids reserve_input has handed to the workers
ReturnedIds == Range(returned)

\* every operation, by every worker, in every interleaving; a worker releases
\* an item that reserve_input returned, with well-typed arguments
Next ==
    \/ \E w \in Workers : Call(w, reserve_input(w)) /\ UNCHANGED scenario
    \/ \E w \in Workers : Call(w, release_input(w, ReturnedIds, DoneStates, ExceptionDicts))
                          /\ UNCHANGED scenario
    \/ \E w \in Workers : Call(w, create_output(w, NoPayload)) /\ UNCHANGED scenario
    \/ \E w \in Workers : Call(w, seed_input(w)) /\ UNCHANGED scenario
    \/ \E w \in Workers : Call(w, recover_orphaned_work_items(w)) /\ UNCHANGED scenario
    \/ Tick /\ UNCHANGED <<started, scenario>>

Spec == Init /\ [][Next]_vars

\* the same without recovery
NextNoRecover ==
    \/ \E w \in Workers : Call(w, reserve_input(w)) /\ UNCHANGED scenario
    \/ \E w \in Workers : Call(w, release_input(w, ReturnedIds, DoneStates, ExceptionDicts))
                          /\ UNCHANGED scenario
    \/ \E w \in Workers : Call(w, create_output(w, NoPayload)) /\ UNCHANGED scenario
    \/ \E w \in Workers : Call(w, seed_input(w)) /\ UNCHANGED scenario
    \/ Tick /\ UNCHANGED <<started, scenario>>

SpecNoRecover == Init /\ [][NextNoRecover]_vars

\* one caller, one call at a time, with any id and any arguments
NextSequential ==
    \/ Bounded(Caller, reserve_input(Caller), MaxSequentialCalls) /\ UNCHANGED scenario
    \/ Bounded(Caller, release_input(Caller, ItemIds, ReleaseStates, ExceptionArgs),
               MaxSequentialCalls) /\ UNCHANGED scenario
    \/ Bounded(Caller, create_output(Caller, NoPayload), MaxSequentialCalls) /\ UNCHANGED scenario
    \/ Bounded(Caller, seed_input(Caller), MaxSequentialCalls) /\ UNCHANGED scenario
    \/ Bounded(Caller, recover_orphaned_work_items(Caller), MaxSequentialCalls)
       /\ UNCHANGED scenario
    \/ Tick /\ UNCHANGED <<started, scenario>>

SpecSequential == Init /\ [][NextSequential]_vars

\* workers that reserve and die: no worker releases anything
NextCrash ==
    \/ \E w \in Workers : Call(w, reserve_input(w)) /\ UNCHANGED scenario
    \/ \E w \in Workers : Call(w, seed_input(w)) /\ UNCHANGED scenario
    \/ \E w \in Workers : Call(w, recover_orphaned_work_items(w)) /\ UNCHANGED scenario
    \/ \E w \in Workers : Crash(w) /\ UNCHANGED <<started, scenario>>
    \/ \E id \in Ids : Abandon(id) /\ UNCHANGED <<started, scenario>>
    \/ Tick /\ UNCHANGED <<started, scenario>>

SpecCrash == Init /\ [][NextCrash]_vars

\* a step of reserve_input by w, counted: calls when it completes, empties
\* when it completed with EmptyQueue (it returned no id)
CountedReserve(w) ==
    /\ Call(w, reserve_input(w))
    /\ phase' = "reserve"
    /\ calls' = IF pc'[w] = "idle" THEN calls + 1 ELSE calls
    /\ empties' = IF pc[w] = "idle" /\ pc'[w] = "idle" /\ returned' = returned
                  THEN empties + 1 ELSE empties
    /\ UNCHANGED <<before, retrying>>

\* the queue is seeded with up to MaxItems items, then the workers only
\* reserve, concurrently, in at most MaxCalls calls
NextReserve ==
    \/ \E w \in Workers : phase = "seed" /\ seed_input(w)
                          /\ UNCHANGED <<started, scenario>>
    \/ \E w \in Workers : CountedReserve(w)
    \/ Tick /\ UNCHANGED <<started, scenario>>

SpecReserve == Init /\ [][NextReserve]_vars

\* the queue is seeded, then reserve_input calls follow one another: a call
\* begins when no other call is in progress
NextFifo ==
    \/ \E w \in Workers : phase = "seed" /\ seed_input(w)
                          /\ UNCHANGED <<started, scenario>>
    \/ \E w \in Workers : /\ \A v \in Workers \ {w} : pc[v] = "idle"
                          /\ CountedReserve(w)
    \/ Tick /\ UNCHANGED <<started, scenario>>

SpecFifo == Init /\ [][NextFifo]_vars

\* ================================================================= claims
\* ---- what the claims read of the store
\* no call is in progress
Quiescent == \A w \in Workers : pc[w] = "idle"

\* the items seeded into the input queue
Inputs == (1..nextId) \ (outputs \cup ForeignIds)

\* the items of queue q a reserve_input on q can take
PendingSet(q) ==
    CASE backend = "sqlite" ->
            {i \in DOMAIN work_items :
                work_items[i].queue_name = q /\ work_items[i].state = PENDING}
      [] backend = "docdb" ->
            {i \in DOMAIN collections[q] : collections[q][i].state = PENDING}
      [] backend = "redis" -> Range(r_pending[q])

\* reserved_at of an item of the input queue, NullTime when it has none
ReservedAt(id) ==
    CASE backend = "sqlite" -> work_items[id].reserved_at
      [] backend = "docdb" -> collections[queue_name][id].reserved_at
      [] backend = "redis" -> HGetReservedAt(r_timestamps, Key(queue_name, id))

\* released_at of an item of the input queue, NullTime when it has none
ReleasedAt(id) ==
    CASE backend = "sqlite" -> work_items[id].released_at
      [] backend = "docdb" -> collections[queue_name][id].released_at
      [] backend = "redis" ->
            IF Key(queue_name, id) \in DOMAIN r_timestamps
            THEN r_timestamps[Key(queue_name, id)].released_at ELSE NullTime

\* the item has a stored exception record
HasException(id) ==
    CASE backend = "sqlite" ->
            \/ work_items[id].exception_type # None
            \/ work_items[id].exception_code # None
            \/ work_items[id].exception_message # None
      [] backend = "docdb" -> collections[queue_name][id].exception # NoException
      [] backend = "redis" -> Key(queue_name, id) \in DOMAIN r_exception

\* the state graph: PENDING -> RESERVED -> {COMPLETED, FAILED}, RESERVED -> PENDING
LegalTransitions ==
    {<<PENDING, RESERVED>>, <<RESERVED, COMPLETED>>, <<RESERVED, FAILED>>,
     <<RESERVED, PENDING>>}

\* ---- C1
\* C1: with no recovery running, in every interleaving of concurrent
\* reserve_input calls (and of the other operations), no id is returned by
\* two different calls: the ids returned so far are pairwise different.
C1_NoIdReturnedTwice ==
    \A i, j \in 1..Len(returned) : i # j => returned[i] # returned[j]

\* two overlapping Redis calls took both items and completed in the other order
C1_Witness ==
    /\ backend = "redis"
    /\ returned = <<2, 1>>

C4_LegalTransitions ==
    [][\A id \in Inputs :
            ItemState(id)' # ItemState(id)
                => <<ItemState(id), ItemState(id)'>> \in LegalTransitions]_vars

RecoverCutoff(w) ==
    IF pc[w] = "idle" THEN now - orphan_timeout_minutes ELSE loc[w].cutoff

\* C6: when a recover_orphaned_work_items call returns, every item whose
\* worker died before the call's cutoff (so its timeout has elapsed), at any
\* point after reserve_input moved it out of PENDING, is PENDING again.
C6_CrashedItemRecovered ==
    [][\A w \in Workers :
            recover_orphaned_work_items(w) /\ pc'[w] = "idle"
                => \A c \in crashed' :
                        c.at < RecoverCutoff(w) => c.id \in PendingSet(queue_name)']_vars

C8_ReservedAtIffReserved ==
    Quiescent =>
        \A id \in Inputs : (ReservedAt(id) # NullTime) <=> (ItemState(id) = RESERVED)

C10_ExceptionIffFailed ==
    Quiescent =>
        \A id \in Inputs : HasException(id) <=> (ItemState(id) = FAILED)

\* ---- C11
\* the first step of the call release_input(id, state, exception) by w
release_call(w, id, state, exception) ==
    /\ pc[w] = "idle"
    /\ \/ sqlite_release_input(w, id, state, exception)
       \/ docdb_release_input(w, id, state, exception)
       \/ redis_release_lrem(w, id, state, exception)

\* the arguments release_input is to reject: a state that is neither
\* COMPLETED nor FAILED, or FAILED with no exception or one without a message
InvalidReleaseArgs(state, exception) ==
    \/ state \notin {COMPLETED, FAILED}
    \/ state = FAILED /\ DictGet(exception, "message") \in {None, ""}

\* C11: a release_input call whose state is neither COMPLETED nor FAILED, or
\* whose state is FAILED with an absent exception or one without a message,
\* raises at once (the call is over after its first step) and leaves every
\* row, document, list, set, hash and key as it was, on every backend.
C11_InvalidArgumentsRejected ==
    [][\A id \in ItemIds, state \in ReleaseStates, exception \in ExceptionArgs :
            release_call(Caller, id, state, exception)
            /\ InvalidReleaseArgs(state, exception)
                => pc'[Caller] = "idle" /\ UNCHANGED store]_vars

\* ---- C12
\* the positions of release_input after its first command
release_labels == {"release_terminal", "release_hset_state"}

\* a step of a release_input call by w that names item id
release_step(w, id) ==
    \/ \E state \in ReleaseStates, exception \in ExceptionArgs :
            release_call(w, id, state, exception)
    \/ /\ pc[w] \in release_labels
       /\ loc[w].id = id
       /\ redis_release_terminal(w) \/ redis_release_hset_state(w)

\* the stored exception record of an item of the input queue
ExceptionOf(id) ==
    CASE backend = "sqlite" ->
            [type |-> work_items[id].exception_type,
             code |-> work_items[id].exception_code,
             message |-> work_items[id].exception_message]
      [] backend = "docdb" -> collections[queue_name][id].exception
      [] backend = "redis" ->
            IF Key(queue_name, id) \in DOMAIN r_exception
            THEN r_exception[Key(queue_name, id)] ELSE NoException

\* C12: no step of a release_input call on an item that is COMPLETED or
\* FAILED changes the item's state or its stored exception record, whatever
\* state and exception the call passes.
C12_TerminalReleaseIsNoOp ==
    [][\A id \in Inputs :
            release_step(Caller, id) /\ ItemState(id) \in {COMPLETED, FAILED}
                => /\ ItemState(id)' = ItemState(id)
                   /\ ExceptionOf(id)' = ExceptionOf(id)]_vars

\* ---- C13
\* C13: no step of a release_input call whose id names no item of any queue
\* creates or changes a row, a document, a list, a set, a hash or a key.
C13_UnknownIdReleaseIsNoOp ==
    [][release_step(Caller, UnknownId) => UNCHANGED store]_vars

\* ---- C14
\* everything the backend holds about item id of queue q
ItemRecord(q, id) ==
    CASE backend = "sqlite" -> work_items[id]
      [] backend = "docdb" -> collections[q][id]
      [] backend = "redis" ->
            [payload |-> IF Key(q, id) \in DOMAIN r_payload
                         THEN r_payload[Key(q, id)] ELSE EmptyPayloadHash,
             timestamps |-> IF Key(q, id) \in DOMAIN r_timestamps
                            THEN r_timestamps[Key(q, id)] ELSE EmptyTimestampsHash,
             exception |-> IF Key(q, id) \in DOMAIN r_exception
                           THEN r_exception[Key(q, id)] ELSE NoException,
             state |-> IF Key(q, id) \in DOMAIN r_state THEN r_state[Key(q, id)] ELSE None,
             pending |-> id \in Range(r_pending[q]),
             processing |-> id \in Range(r_processing[q]),
             done |-> id \in r_done[q],
             failed |-> id \in r_failed[q]]

\* the items of the input queue that are RESERVED with a reserved_at older
\* than now - timeout
Orphans(timeout) ==
    {id \in Inputs : /\ ItemState(id) = RESERVED
                     /\ ReservedAt(id) # NullTime
                     /\ ReservedAt(id) < now - timeout}

\* a step of a recover_orphaned_work_items call by w; the input queue as the
\* call found it is noted when the call begins
Snapshot(w, op) ==
    /\ op
    /\ before' = IF pc[w] = "idle"
                 THEN [NoSnapshot EXCEPT
                          !.orphans = Orphans(orphan_timeout_minutes),
                          !.items = [id \in Inputs |-> ItemRecord(queue_name, id)]]
                 ELSE before

\* one caller seeds, reserves, releases what it reserved and recovers, one
\* call at a time, while time passes
NextRecover ==
    \/ Bounded(Caller, reserve_input(Caller), MaxRecoverCalls)
       /\ before' = NoSnapshot /\ UNCHANGED <<phase, calls, empties, retrying>>
    \/ Bounded(Caller, release_input(Caller, ReturnedIds, DoneStates, ExceptionDicts),
               MaxRecoverCalls)
       /\ before' = NoSnapshot /\ UNCHANGED <<phase, calls, empties, retrying>>
    \/ Bounded(Caller, seed_input(Caller), MaxRecoverCalls)
       /\ before' = NoSnapshot /\ UNCHANGED <<phase, calls, empties, retrying>>
    \/ Bounded(Caller, Snapshot(Caller, recover_orphaned_work_items(Caller)),
               MaxRecoverCalls)
       /\ UNCHANGED <<phase, calls, empties, retrying>>
    \/ Tick /\ UNCHANGED <<started, scenario>>

SpecRecover == Init /\ [][NextRecover]_vars

\* C14: when a recover_orphaned_work_items call returns, the list it returns
\* holds exactly the ids of the items that were RESERVED with a reserved_at
\* older than now - timeout when the call began, each once; each of them is
\* PENDING with no reserved_at; every other item of the queue is as it was.
C14_RecoverReturnsOrphans ==
    [][recover_orphaned_work_items(Caller) /\ pc'[Caller] = "idle"
            => /\ Range(recovered') = before'.orphans
               /\ Len(recovered') = Cardinality(before'.orphans)
               /\ \A id \in DOMAIN before'.items :
                    IF id \in before'.orphans
                    THEN ItemState(id)' = PENDING /\ ReservedAt(id)' = NullTime
                    ELSE ItemRecord(queue_name, id)' = before'.items[id]]_vars

\* a call returned an orphan and left alone an item reserved since the
\* cutoff, a released item and a PENDING item
C14_Witness ==
    /\ Quiescent
    /\ before # NoSnapshot
    /\ recovered # <<>>
    /\ Range(recovered) = before.orphans
    /\ \E id \in Inputs \ before.orphans : ItemState(id) = RESERVED
    /\ \E id \in Inputs \ before.orphans : ItemState(id) \in {COMPLETED, FAILED}

\* ---- C15
\* C15: ids are handed out in creation order.  When reserve_input returns an
\* id, every item that the latest recover_orphaned_work_items call returned
\* to PENDING and that is still PENDING was created after the returned item:
\* the call did not pass over a recovered item for a younger one.
C15_RecoveredKeepsPlace ==
    [][returned' # returned
            => \A r \in Range(recovered) \cap PendingSet(queue_name)' :
                    Last(returned') < r]_vars

\* ---- C16
\* one caller creates items with and without payloads, reserves, and saves
\* and loads the payload of any id, one call at a time
NextPayload ==
    \/ Bounded(Caller, seed_input(Caller), MaxPayloadCalls) /\ UNCHANGED scenario
    \/ Bounded(Caller, create_output(Caller, Payloads), MaxPayloadCalls)
       /\ UNCHANGED scenario
    \/ Bounded(Caller, reserve_input(Caller), MaxPayloadCalls) /\ UNCHANGED scenario
    \/ Bounded(Caller, save_payload(Caller, ItemIds, Payloads), MaxPayloadCalls)
       /\ UNCHANGED scenario
    \/ Bounded(Caller, load_payload(Caller, ItemIds), MaxPayloadCalls)
       /\ UNCHANGED scenario

SpecPayload == Init /\ [][NextPayload]_vars

\* what load_payload is to return for an item created with payload argument
\* P: P, and the empty object when the argument was omitted
PayloadOf(P) == IF P = PyNone THEN EmptyDict ELSE P

\* C16: a load_payload call on an item that create_output made with payload
\* P, and whose payload no save_payload has replaced, returns P (the empty
\* object when P was omitted), for every JSON value P: objects, arrays,
\* scalars, the empty array, 0, false and the empty string among them.
C16_CreateThenLoad ==
    [][\A id \in outputs :
            load_payload(Caller, {id}) /\ passed[id].by = "create_output"
                => result'[Caller] =
                        Outcome("load_payload", id, None, PayloadOf(passed[id].payload))]_vars

\* ---- C17
\* the persisted state but for the payload of item id
StoreExceptPayload(id) ==
    CASE backend = "sqlite" ->
            <<[i \in DOMAIN work_items |->
                IF i = id THEN [work_items[i] EXCEPT !.payload = None] ELSE work_items[i]],
              collections, redis, files_store>>
      [] backend = "docdb" ->
            <<[q \in StoredQueues |-> [i \in DOMAIN collections[q] |->
                IF i = id THEN [collections[q][i] EXCEPT !.payload = PyNone]
                ELSE collections[q][i]]],
              work_items, redis, files_store>>
      [] backend = "redis" ->
            <<[k \in DOMAIN r_payload |->
                IF k[2] = id THEN [r_payload[k] EXCEPT !.payload = None] ELSE r_payload[k]],
              r_pending, r_processing, r_done, r_failed, r_timestamps, r_exception,
              r_state, r_origin_queue, work_items, collections, files_store>>

\* one caller seeds and reserves items, creates outputs, and saves and loads
\* the payload of any id, one call at a time
NextSave ==
    \/ Bounded(Caller, seed_input(Caller), MaxSaveCalls) /\ UNCHANGED scenario
    \/ Bounded(Caller, reserve_input(Caller), MaxSaveCalls) /\ UNCHANGED scenario
    \/ Bounded(Caller, create_output(Caller, NoPayload), MaxSaveCalls)
       /\ UNCHANGED scenario
    \/ Bounded(Caller, save_payload(Caller, ItemIds, Payloads), MaxSaveCalls)
       /\ UNCHANGED scenario
    \/ Bounded(Caller, load_payload(Caller, ItemIds), MaxSaveCalls)
       /\ UNCHANGED scenario

SpecSave == Init /\ [][NextSave]_vars

\* C17: a load_payload call on an item whose payload the caller's latest
\* save_payload set to P returns P, for items of the input and of the output
\* queue; and a save_payload call changes nothing of the persisted state but
\* the payload of the item it names: not its state, its timestamps, its
\* queue membership, nor any other item.
C17_SaveThenLoad ==
    /\ [][\A id \in DOMAIN passed :
            load_payload(Caller, {id}) /\ passed[id].by = "save_payload"
                => result'[Caller] = Outcome("load_payload", id, None, passed[id].payload)]_vars
    /\ [][\A id \in 1..nextId :
            save_payload(Caller, {id}, Payloads)
                => StoreExceptPayload(id)' = StoreExceptPayload(id)]_vars

\* a RESERVED item of the input queue was given the empty array as its
\* payload, and the load_payload that followed returned the empty array
C17_Witness ==
    /\ \E id \in Inputs \cap DOMAIN passed :
            /\ ItemState(id) = RESERVED
            /\ passed[id] = Passed("save_payload", PyValue("list", 0))
            /\ result[Caller] = Outcome("load_payload", id, None, PyValue("list", 0))

\* ---- C18
\* the caller of C16 and C17, on a database that another adapter puts items
\* of its own queue into
NextResolve ==
    \/ NextPayload
    \/ ForeignCreate /\ UNCHANGED <<started, scenario>>

SpecResolve == Init /\ [][NextResolve]_vars

\* item id is an item of queue q
InQueue(q, id) ==
    CASE backend = "sqlite" -> id \in DOMAIN work_items /\ work_items[id].queue_name = q
      [] backend = "docdb" -> id \in DOMAIN collections[q]
      [] backend = "redis" -> Key(q, id) \in DOMAIN r_payload

\* a step of a load_payload or a save_payload call by w that names item id
payload_call(w, id) ==
    \/ load_payload(w, {id})
    \/ save_payload(w, {id}, Payloads)

\* C18: a load_payload or save_payload call finds its item in the input queue
\* or in the output queue and then raises nothing; for an id that is in
\* neither queue it raises NotFound and changes nothing of the persisted
\* state.
C18_ResolveOrNotFound ==
    [][\A id \in ItemIds :
            payload_call(Caller, id)
                => IF InQueue(queue_name, id) \/ InQueue(output_queue_name, id)
                   THEN result'[Caller].error = None
                   ELSE result'[Caller].error = NotFound /\ UNCHANGED store]_vars

\* ---- C19
\* items are seeded; each worker makes one add_file call for an item that
\* exists, the two calls in every interleaving of their commands; when both
\* calls are over the workers list and read the files
BothAdded == \A w \in Workers : pc[w] = "idle" /\ result[w] # NoResult

NextFiles ==
    \/ seed_input(Caller) /\ UNCHANGED <<started, scenario>>
    \/ \E w \in Workers :
        /\ result[w] = NoResult
        /\ add_file(w, 1..nextId, FileNames, Contents)
        /\ UNCHANGED <<started, scenario>>
    \/ \E w \in Workers : add_file_step(w) /\ UNCHANGED <<started, scenario>>
    \/ \E w \in Workers :
        /\ BothAdded
        /\ list_files(w, 1..nextId)
        /\ UNCHANGED <<started, scenario>>
    \/ \E w \in Workers :
        /\ BothAdded
        /\ get_file(w, 1..nextId, FileNames)
        /\ UNCHANGED <<started, scenario>>

SpecFiles == Init /\ [][NextFiles]_vars

\* the add_file calls of the two workers are over, and they were for the
\* same item and filename
SameFileAdded(id, name) ==
    \A w \in Workers :
        /\ pc[w] = "idle"
        /\ result[w].op = "add_file" /\ result[w].id = id /\ result[w].name = name

\* how many times a list holds a name
Occurrences(names, name) == Cardinality({i \in DOMAIN names : names[i] = name})

\* C19: when both workers called add_file for the same existing item and the
\* same filename, exactly one of the calls returned and the other raised
\* FileExists; a list_files call made afterwards returns the name once, and a
\* get_file call made afterwards returns the bytes of the call that returned.
C19_OneAddFileWins ==
    /\ [](\A id \in Ids, name \in FileNames :
            SameFileAdded(id, name) =>
                /\ Cardinality({w \in Workers : result[w].error = None}) = 1
                /\ \A w \in Workers : result[w].error \in {None, FileExists})
    /\ [][\A id \in Ids, name \in FileNames, w \in Workers :
            SameFileAdded(id, name) /\ result'[w].op = "list_files" /\ result'[w].id = id
                => /\ result'[w].error = None
                   /\ Occurrences(result'[w].names, name) = 1]_vars
    /\ [][\A id \in Ids, name \in FileNames, w \in Workers :
            SameFileAdded(id, name) /\ result'[w].op = "get_file"
            /\ result'[w].id = id /\ result'[w].name = name
                => /\ result'[w].error = None
                   /\ \E v \in Workers : /\ result[v].error = None
                                         /\ result'[w].content = result[v].content]_vars

\* ---- C20
\* one caller creates items of both queues, attaches files to any id, lists,
\* reads and removes them, one call at a time
NextAttach ==
    \/ Bounded(Caller, seed_input(Caller), MaxFileCalls) /\ UNCHANGED scenario
    \/ Bounded(Caller, create_output(Caller, NoPayload), MaxFileCalls)
       /\ UNCHANGED scenario
    \/ Bounded(Caller, remove_file(Caller, ItemIds, FileNames), MaxFileCalls)
       /\ UNCHANGED scenario
    \/ Bounded(Caller, add_file(Caller, ItemIds, FileNames, Contents), MaxFileCalls)
       /\ UNCHANGED scenario
    \/ Bounded(Caller, add_file_step(Caller), MaxFileCalls) /\ UNCHANGED scenario
    \/ Bounded(Caller, list_files(Caller, ItemIds), MaxFileCalls) /\ UNCHANGED scenario
    \/ Bounded(Caller, get_file(Caller, ItemIds, FileNames), MaxFileCalls)
       /\ UNCHANGED scenario

SpecAttach == Init /\ [][NextAttach]_vars

\* a command of an add_file(id, name, ...) call of w
add_file_call(w, id, name) ==
    \/ add_file(w, {id}, {name}, Contents)
    \/ add_file_step(w) /\ loc[w].id = id /\ loc[w].name = name

\* C20: an add_file call for an item and a filename that an earlier add_file
\* call attached raises FileExists, and no command of it changes the files
\* that are stored: the file set of the item and the bytes of its files.
C20_DuplicateNameRejected ==
    [][\A id \in ItemIds, name \in FileNames :
        add_file_call(Caller, id, name) /\ <<id, name>> \in DOMAIN attached
            => /\ UNCHANGED <<files_store, collections>>
               /\ pc'[Caller] = "idle" => result'[Caller].error = FileExists]_vars

\* ---- C21
\* One caller sets a store up (items of both queues, files attached to them),
\* then lists the files of an item, attaches a file under a name that is not
\* attached to it, removes that file, and lists the files again. phase follows
\* the four calls; before keeps the item, the list the first list_files
\* returned, the GridFS objects of that moment, and the name of the pair.
PairSetup ==
    /\ phase = "seed"
    /\ \/ Bounded(Caller, seed_input(Caller), MaxSetupCalls)
       \/ Bounded(Caller, create_output(Caller, NoPayload), MaxSetupCalls)
       \/ Bounded(Caller, add_file(Caller, 1..nextId, FileNames, Contents), MaxSetupCalls)
       \/ Bounded(Caller, add_file_step(Caller), MaxSetupCalls)
    /\ UNCHANGED scenario

PairListBefore ==
    /\ phase = "seed"
    /\ \E id \in 1..nextId :
        /\ list_files(Caller, {id})
        /\ before' = [NoSnapshot EXCEPT !.id = id,
                                        !.names = Range(result'[Caller].names),
                                        !.blobs = DOMAIN gridfs]
    /\ phase' = "listed"
    /\ UNCHANGED <<started, calls, empties, retrying>>

\* the phase after a command of the add_file call of the pair
PairAdded ==
    IF pc'[Caller] # "idle" THEN "adding"
    ELSE IF result'[Caller].error = None THEN "added" ELSE "failed"

PairAdd ==
    /\ \/ /\ phase = "listed"
          /\ \E name \in FileNames :
                /\ <<before.id, name>> \notin DOMAIN attached
                /\ add_file(Caller, {before.id}, {name}, Contents)
                /\ before' = [before EXCEPT !.name = name]
       \/ /\ phase = "adding"
          /\ add_file_step(Caller)
          /\ UNCHANGED <<before, retrying>>
    /\ phase' = PairAdded
    /\ UNCHANGED <<started, calls, empties, retrying>>

PairRemove ==
    /\ phase = "added"
    /\ remove_file(Caller, {before.id}, {before.name})
    /\ phase' = "removed"
    /\ UNCHANGED <<started, calls, empties, before, retrying>>

PairListAfter ==
    /\ phase = "removed"
    /\ list_files(Caller, {before.id})
    /\ phase' = "done"
    /\ UNCHANGED <<started, calls, empties, before, retrying>>

NextPair == PairSetup \/ PairListBefore \/ PairAdd \/ PairRemove \/ PairListAfter

SpecPair == Init /\ [][NextPair]_vars

\* C21: after add_file(id, name, bytes) with a name that was not attached and
\* remove_file(id, name), list_files(id) returns the names it returned before
\* the two calls, no file of the filesystem is left for (id, name), and the
\* GridFS objects are those of before.
C21_AddThenRemove ==
    [][PairListAfter =>
        /\ result'[Caller].error = None
        /\ Range(result'[Caller].names) = before.names
        /\ Filepath(before.id, before.name) \notin DOMAIN filesystem
        /\ DOMAIN gridfs = before.blobs]_vars

\* ---- C22
\* C22: a get_file call for an item and a filename that the latest add_file
\* call for them attached with bytes B, and that no remove_file call removed
\* since, returns B: for contents stored inline and in external storage, and
\* for items of the input and of the output queue.
C22_AddThenGet ==
    [][\A id \in Ids, name \in FileNames :
        get_file(Caller, {id}, {name}) /\ <<id, name>> \in DOMAIN attached
            => result'[Caller] = FileOutcome("get_file", id, None, PyNone, name,
                                             attached[<<id, name>>], <<>>)]_vars

\* ---- C23
\* one caller seeds items and attaches files whose names and contents are at
\* and beyond the limits, one call at a time
NextBoundary ==
    \/ Bounded(Caller, seed_input(Caller), MaxSetupCalls) /\ UNCHANGED scenario
    \/ Bounded(Caller, add_file(Caller, ItemIds, FileNames \cup BoundaryNames,
                                Contents \cup BoundaryContents), MaxSetupCalls)
       /\ UNCHANGED scenario
    \/ Bounded(Caller, add_file_step(Caller), MaxSetupCalls) /\ UNCHANGED scenario

SpecBoundary == Init /\ [][NextBoundary]_vars

\* a command of an add_file(id, name, content) call of w
add_file_command(w, id, name, content) ==
    \/ add_file(w, {id}, {name}, {content})
    \/ /\ add_file_step(w)
       /\ loc[w].id = id /\ loc[w].name = name /\ loc[w].content = content

\* the arguments add_file is to refuse
InvalidFileArgs(name, content) ==
    \/ HasSlash(name) \/ HasBackslash(name)
    \/ NameLength(name) > 255
    \/ content.len > 104857600

\* the errors that are InvalidArgument: the ValueErrors of the validation
InvalidArgument == {InvalidFilename, FilenameTooLong, FileTooLarge}

\* C23: an add_file call whose filename holds a slash or a backslash or is
\* longer than 255, or whose content is longer than 100 MB, raises
\* InvalidArgument and no command of it changes the files that are stored; a
\* call with a filename of 255 characters or a content of 100 MB exactly (and
\* nothing invalid), for an item that exists and a name not attached to it,
\* returns.
C23_LimitsOfAddFile ==
    [][\A id \in ItemIds, name \in FileNames \cup BoundaryNames,
          content \in Contents \cup BoundaryContents :
        add_file_command(Caller, id, name, content) =>
            IF InvalidFileArgs(name, content)
            THEN /\ UNCHANGED <<files_store, collections>>
                 /\ pc'[Caller] = "idle" => result'[Caller].error \in InvalidArgument
            ELSE (/\ NameLength(name) = 255 \/ content.len = 104857600
                  /\ id \in 1..nextId
                  /\ <<id, name>> \notin DOMAIN attached
                  /\ pc'[Caller] = "idle")
                    => result'[Caller].error = None]_vars

\* ---- C24
\* the workers seed the input queue with and without callids, and reserve,
\* while time passes
NextCallid ==
    \/ \E w \in Workers :
        Bounded(w, seed_input(w), MaxSetupCalls) /\ UNCHANGED scenario
    \/ \E w \in Workers :
        Bounded(w, seed_input_callid(w, CallIds), MaxSetupCalls) /\ UNCHANGED scenario
    \/ \E w \in Workers :
        Bounded(w, reserve_input(w), MaxSetupCalls) /\ UNCHANGED scenario
    \/ Tick /\ UNCHANGED <<started, scenario>>

SpecCallid == Init /\ [][NextCallid]_vars

\* the callid of an item of the input queue on the document backend
CallidOf(id) == collections[queue_name][id].callid

\* C24: on the document backend a seed_input call with a callid that an item
\* of the queue carries raises DuplicateCallId and inserts nothing, and no two
\* items of the queue carry the same callid.
C24_DuplicateCallidRejected ==
    /\ [][\A w \in Workers, callid \in CallIds \ {None} :
            /\ seed_input_callid(w, {callid})
            /\ \E id \in DOMAIN collections[queue_name] : CallidOf(id) = callid
            => /\ result'[w] = Outcome("seed_input", 0, DuplicateCallId, PyNone)
               /\ UNCHANGED store]_vars
    /\ [](backend = "docdb" =>
            \A i, j \in DOMAIN collections[queue_name] :
                CallidOf(i) # None /\ CallidOf(i) = CallidOf(j) => i = j)

\* ============================================================ retry layer
\* with_retry(max_retries=3, ...): the attempts of one call
max_retries == 3
EmptyQueue == "EmptyQueue"
OperationalError == "sqlite3.OperationalError"
RedisConnectionError == "redis.exceptions.ConnectionError"
ConnectionFailure == "pymongo.errors.ConnectionFailure"
ServerSelectionTimeoutError == "pymongo.errors.ServerSelectionTimeoutError"

\* the operations the model calls by name
Operations ==
    {"reserve_input", "release_input", "create_output", "seed_input", "load_payload",
     "save_payload", "list_files", "get_file", "add_file", "remove_file",
     "recover_orphaned_work_items"}

\* what the driver raises while the backend is unreachable or, for the
\* embedded database, locked by another connection
driver_error ==
    CASE backend = "sqlite" -> OperationalError
      [] backend = "redis" -> RedisConnectionError
      [] backend = "docdb" -> ConnectionFailure

\* what the body of operation name raises when a command of it raised the
\* driver's error: the except clauses of the Redis and DocumentDB methods and
\* of the SQLite reserve_input raise DatabaseTemporarilyUnavailable, the other
\* SQLite methods have no except clause for it
surfaced_error(name) ==
    IF backend = "sqlite" /\ name # "reserve_input"
    THEN driver_error ELSE DatabaseTemporarilyUnavailable

\* the errors that no transient failure causes
NonTransientErrors ==
    {EmptyQueue, NotFound, FileExists, FileNotFound, FileMissing, InvalidFilename,
     FilenameTooLong, FileTooLarge, DuplicateCallId}

\* a decorator that names every exception: with_retry(exceptions=(Exception,))
retry_every_exception(name) ==
    NonTransientErrors \cup {driver_error, DatabaseTemporarilyUnavailable}

\* exceptions=(...) of the with_retry decorator of operation name, empty when
\* the method carries no decorator
retry_exceptions(name) ==
    CASE backend = "sqlite" ->
            IF name = "reserve_input"
            THEN {OperationalError, DatabaseTemporarilyUnavailable} ELSE {}
      [] backend = "redis" ->
            IF name \in {"seed_input", "recover_orphaned_work_items"} THEN {}
            ELSE {RedisConnectionError, DatabaseTemporarilyUnavailable}
      [] backend = "docdb" ->
            IF name \in {"seed_input", "recover_orphaned_work_items"} THEN {}
            ELSE {ConnectionFailure, ServerSelectionTimeoutError,
                  DatabaseTemporarilyUnavailable}

\* with_retry: after n failed attempts the attempt that raised error is
\* followed by another one when error is one of exceptions and fewer than
\* max_retries attempts were made
with_retry(exceptions, n, error) == error \in exceptions /\ n + 1 < max_retries

\* the operations whose outcome the model records in result
RecordingOps ==
    {"load_payload", "save_payload", "list_files", "get_file", "add_file", "remove_file"}

\* the exception the step of operation name by w raised, None when the step
\* raised none: reserve_input raised EmptyQueue when it ended with no id
Raised(w, name) ==
    CASE pc'[w] # "idle" -> None
      [] name = "reserve_input" ->
            IF pc[w] = "idle" /\ returned' = returned THEN EmptyQueue ELSE None
      [] name \in RecordingOps -> result'[w].error
      [] OTHER -> None

\* an attempt of w at operation name takes the step step of its body; when the
\* attempt ends with_retry decides whether the body runs again, with the same
\* arguments
AttemptStep(w, name, step, exceptions) ==
    /\ attempt[w].op \in {None, name}
    /\ step
    /\ attempt' = [attempt EXCEPT ![w] =
            IF pc'[w] # "idle" THEN [@ EXCEPT !.op = name]
            ELSE IF with_retry(exceptions, @.n, Raised(w, name))
            THEN [op |-> name, n |-> @.n + 1,
                  id |-> IF name \in RecordingOps THEN result'[w].id ELSE 0,
                  name |-> IF name \in RecordingOps THEN result'[w].name ELSE None]
            ELSE NoAttempt]
    /\ UNCHANGED faults

\* the arguments of an attempt: those of the call when it is a later attempt
SameArgs(w, name, ids) == IF attempt[w].op = name THEN {attempt[w].id} ELSE ids
SameNames(w, name, names) == IF attempt[w].op = name THEN {attempt[w].name} ELSE names

\* a command of the attempt of w at operation name fails with the driver's
\* error, the first command or the one at one of labels: the attempt ends
\* there, what its earlier commands wrote stays, and with_retry runs the body
\* again or lets the error out
CommandFails(w, name, labels, ids, names) ==
    /\ faults > 0
    /\ attempt[w].op \in {None, name}
    /\ pc[w] \in {"idle"} \cup labels
    /\ faults' = faults - 1
    /\ \E id \in SameArgs(w, name, ids), file \in SameNames(w, name, names) :
        IF with_retry(retry_exceptions(name), attempt[w].n, surfaced_error(name))
        THEN /\ attempt' = [attempt EXCEPT ![w] =
                                [op |-> name, n |-> @.n + 1, id |-> id, name |-> file]]
             /\ UNCHANGED result
        ELSE /\ attempt' = [attempt EXCEPT ![w] = NoAttempt]
             /\ Raises(w, name, id, surfaced_error(name))
    /\ Return(w)
    /\ UNCHANGED <<backend, in_transaction, database, parent_id, attached, passed, recovered, now, nextId, store, history>>

\* the backend becomes unreachable (or locked) for its next commands
Outage ==
    /\ faults = 0
    /\ \E n \in 1..max_retries : faults' = n
    /\ UNCHANGED <<backend, in_transaction, database, parent_id, now, nextId, store, pc, loc, history, recovered, result,
                   passed, attached, started, phase, calls, empties, before, attempt>>

\* a step of a call of w at operation name, a run makes at most budget calls
RetriedCall(w, step, budget) ==
    /\ pc[w] = "idle" /\ attempt[w].op = None => started < budget
    /\ step
    /\ started' = IF pc[w] = "idle" /\ attempt[w].op = None THEN started + 1 ELSE started
    /\ UNCHANGED <<phase, calls, empties, before>>

MaxRetryCalls == 4
\* the file arguments of the calls: a valid name and one with a path separator
RetryNames == {"notes", "dir/x"}
RetryContents == {Bytes("a", 1)}

\* one caller seeds, reserves, loads payloads, releases and adds files, one
\* call at a time, while the backend fails up to max_retries commands in a row
NextRetry ==
    \/ RetriedCall(Caller, AttemptStep(Caller, "seed_input", seed_input(Caller),
                                       retry_exceptions("seed_input")), MaxRetryCalls)
    \/ RetriedCall(Caller, CommandFails(Caller, "seed_input", {}, {0}, {None}), MaxRetryCalls)
    \/ RetriedCall(Caller, AttemptStep(Caller, "reserve_input", reserve_input(Caller),
                                       retry_exceptions("reserve_input")), MaxRetryCalls)
    \/ RetriedCall(Caller, CommandFails(Caller, "reserve_input", reserve_labels, {0}, {None}),
                   MaxRetryCalls)
    \/ RetriedCall(Caller, AttemptStep(Caller, "load_payload",
                                       load_payload(Caller, SameArgs(Caller, "load_payload", ItemIds)),
                                       retry_exceptions("load_payload")), MaxRetryCalls)
    \/ RetriedCall(Caller, CommandFails(Caller, "load_payload", {}, ItemIds, {None}), MaxRetryCalls)
    \/ RetriedCall(Caller, AttemptStep(Caller, "release_input",
                                       release_input(Caller,
                                                     SameArgs(Caller, "release_input", ReturnedIds),
                                                     {COMPLETED}, {ExcNone}),
                                       retry_exceptions("release_input")), MaxRetryCalls)
    \/ RetriedCall(Caller, CommandFails(Caller, "release_input", {}, ReturnedIds, {None}),
                   MaxRetryCalls)
    \/ RetriedCall(Caller, AttemptStep(Caller, "add_file",
                                       \/ add_file(Caller, SameArgs(Caller, "add_file", Ids),
                                                   SameNames(Caller, "add_file", RetryNames),
                                                   RetryContents)
                                       \/ add_file_step(Caller),
                                       retry_exceptions("add_file")), MaxRetryCalls)
    \/ RetriedCall(Caller, CommandFails(Caller, "add_file", {}, Ids, RetryNames),
                   MaxRetryCalls)
    \/ Outage

SpecRetry == Init /\ [][NextRetry]_vars

\* the attempt of the caller that ends with this step failed on a command
CallerFails == faults' < faults

\* C25: an operation lets the error of a transient failure out only when
\* max_retries attempts of the call failed; after one or two failed attempts
\* the call goes on with another attempt.
C25_SurfacedAfterAllAttempts ==
    [][CallerFails => IF attempt[Caller].n + 1 < max_retries
                      THEN /\ attempt'[Caller].n = attempt[Caller].n + 1
                           /\ UNCHANGED result
                      ELSE /\ attempt'[Caller] = NoAttempt
                           /\ result'[Caller].error = DatabaseTemporarilyUnavailable]_vars

\* the operations that SpecRetry calls
RetriedOps == {"seed_input", "reserve_input", "load_payload", "release_input", "add_file"}

\* a step of the body of operation name by the caller, in the calls of SpecRetry
BodyStep(name) ==
    CASE name = "reserve_input" -> reserve_input(Caller)
      [] name = "load_payload" -> load_payload(Caller, ItemIds)
      [] name = "add_file" -> \/ add_file(Caller, Ids, RetryNames, RetryContents)
                              \/ add_file_step(Caller)
      [] name = "release_input" -> release_input(Caller, ReturnedIds, {COMPLETED}, {ExcNone})
      [] name = "seed_input" -> seed_input(Caller)

MaxParentCalls == 4

\* one caller seeds and reserves items and creates outputs with any parent_id:
\* the empty string, the id of an item, an id of no item, or None
NextParent ==
    \/ Bounded(Caller, seed_input(Caller), MaxParentCalls) /\ UNCHANGED scenario
    \/ Bounded(Caller, reserve_input(Caller), MaxParentCalls) /\ UNCHANGED scenario
    \/ Bounded(Caller, create_output_parent(Caller, ParentIds \cup {NoParent}, NoPayload),
               MaxParentCalls) /\ UNCHANGED scenario

SpecParent == Init /\ [][NextParent]_vars

\* item id is PENDING in queue q
PendingIn(q, id) ==
    CASE backend = "sqlite" ->
            /\ id \in DOMAIN work_items
            /\ work_items[id].queue_name = q /\ work_items[id].state = PENDING
      [] backend = "docdb" ->
            id \in DOMAIN collections[q] /\ collections[q][id].state = PENDING
      [] backend = "redis" ->
            /\ Key(q, id) \in DOMAIN r_payload
            /\ r_payload[Key(q, id)].state = PENDING
            /\ id \in Range(r_pending[q])

\* the parent that is recorded for item id; Redis sets no key for the empty
\* string, which reads as no parent
RecordedParent(id) ==
    IF id \in DOMAIN parent_id THEN parent_id[id]
    ELSE IF backend = "redis" THEN Str(0) ELSE NoParent

\* C27: create_output with any string parent_id (the empty string, the id of
\* an item, an id that names no item) returns a new id, whose item is PENDING
\* in the output queue with that parent_id recorded.
C27_AnyParentAccepted ==
    [][\A parent \in ParentIds :
            create_output_parent(Caller, {parent}, NoPayload)
            => /\ nextId' = nextId + 1
               /\ outputs' = outputs \cup {nextId'}
               /\ PendingIn(output_queue_name, nextId)'
               /\ RecordedParent(nextId)' = parent]_vars

\* item id of the input queue is RESERVED or, on Redis, in the processing list
Held(id) ==
    \/ ItemState(id) = RESERVED
    \/ backend = "redis" /\ id \in Range(r_processing[queue_name])

\* C28: when a reserve_input call is over, with or without attempts that
\* failed and were retried, every item that left PENDING for RESERVED or for
\* the processing list was returned to a caller: a failed attempt leaves no
\* item behind.
C28_RetriedReserveLeavesNothing ==
    pc[Caller] = "idle" /\ attempt[Caller] = NoAttempt
    => \A id \in Ids : Held(id) => id \in Range(returned)

\* ==================================================== opening the database
\* the versions a database file is found at: those of this build and two of
\* later builds
MaxVersion == 6
\* the constructions of an adapter on one file
MaxOpens == 3
\* SchemaVersionMismatch (exceptions.py)
SchemaVersionMismatch == "SchemaVersionMismatch"
\* ValueError("Database schema version (...) is newer than adapter supports")
SchemaNewer == "ValueError: Database schema version is newer than adapter supports"
\* sqlite3.OperationalError of a statement of a migration whose table, column
\* or index exists
AlreadyExists == "sqlite3.OperationalError: already exists"
\* the state value of rows written before version 4
DONE == "DONE"

\* detect_schema_version(conn): the greatest version of table schema_version,
\* 0 when it has no row
detect_schema_version(versions) ==
    IF versions = {} THEN 0 ELSE CHOOSE v \in versions : \A u \in versions : u <= v

\* a loop that runs every migration of the build
migration_range_all(current_version) == 1..SCHEMA_VERSION
\* range(current_version + 1, SCHEMA_VERSION + 1)
migration_range(current_version) == (current_version + 1)..SCHEMA_VERSION

\* a copy that keeps only the rows whose state the new CHECK admits
migrate_to_v4_admitted(tbl) ==
    [id \in {i \in DOMAIN tbl : tbl[i].state # DONE} |-> tbl[id]]

\* INSERT INTO work_items_new SELECT id, queue_name, parent_id, payload,
\* CASE WHEN state = 'DONE' THEN 'COMPLETED' ELSE state END, ... FROM
\* work_items: the rows of the new table, which is then renamed to work_items
migrate_to_v4_rows(tbl) ==
    [id \in DOMAIN tbl |->
        IF tbl[id].state = DONE THEN [tbl[id] EXCEPT !.state = COMPLETED] ELSE tbl[id]]

\* DROP TABLE work_items on a connection with PRAGMA foreign_keys=ON: SQLite
\* first deletes every row of the table, and the FOREIGN KEY (work_item_id)
\* REFERENCES work_items(id) ON DELETE CASCADE of work_item_files deletes
\* the rows of work_item_files that name a deleted row; what is left
sqlite_drop_work_items(files, tbl) ==
    [key \in {k \in DOMAIN files : k[1] \notin DOMAIN tbl} |-> files[key]]

\* _init_database: CREATE TABLE IF NOT EXISTS schema_version, commit
open_create_version_table ==
    /\ backend = "sqlite" /\ opening.pc \in {"closed", "open", "failed"}
    /\ opening.opens < MaxOpens
    /\ opening' = [NotOpening EXCEPT !.pc = "detect", !.opens = opening.opens + 1]
    /\ UNCHANGED <<backend, in_transaction, schema_version, schema, now, nextId, store, pc, loc, history,
                   recovered, result, passed, attached, started, scenario>>

\* current_version = detect_schema_version(conn) and the check of it
open_detect ==
    /\ backend = "sqlite" /\ opening.pc = "detect"
    /\ LET current_version == detect_schema_version(schema_version) IN
        opening' = IF current_version > SCHEMA_VERSION
                   THEN [opening EXCEPT !.pc = "failed", !.error = SchemaNewer,
                                        !.current_version = current_version]
                   ELSE [opening EXCEPT !.pc = "migrate",
                                        !.current_version = current_version]
    /\ UNCHANGED <<backend, in_transaction, schema_version, schema, now, nextId, store, pc, loc, history,
                   recovered, result, passed, attached, started, scenario>>

\* one turn of the loop: apply_migration(conn, version, migrations[version])
\* runs the statements of the migration and records version in
\* schema_version; after the last turn _init_database returns
open_migrate ==
    /\ backend = "sqlite" /\ opening.pc = "migrate"
    /\ LET rest == {v \in migration_range(opening.current_version) : v > opening.version}
           version == CHOOSE v \in rest : \A u \in rest : v <= u
       IN
       IF rest = {}
       THEN /\ opening' = [opening EXCEPT !.pc = "open"]
            /\ UNCHANGED <<schema_version, schema, work_items, work_item_files>>
       ELSE IF version \in schema
       THEN /\ opening' = [opening EXCEPT !.pc = "failed", !.error = AlreadyExists,
                                          !.version = version]
            /\ UNCHANGED <<schema_version, schema, work_items, work_item_files>>
       ELSE /\ schema' = schema \cup {version}
            /\ schema_version' = schema_version \cup {version}
            /\ work_items' = IF version = 4 THEN migrate_to_v4_rows(work_items)
                             ELSE work_items
            /\ work_item_files' = IF version = 4
                                  THEN sqlite_drop_work_items(work_item_files, work_items)
                                  ELSE work_item_files
            /\ opening' = [opening EXCEPT !.version = version,
                                          !.applied = Append(@, version)]
    /\ UNCHANGED <<backend, in_transaction, now, nextId, collections, redis, r_files, filesystem, gridfs,
                   parent_id, pc, loc, history, recovered, result, passed, attached,
                   started, scenario>>

\* the rows a database of version v holds: none, or items the adapter
\* released, in the state value of their time
LegacyRow(state) ==
    [sqlite_new_row(<<>>, queue_name, 1, sqlite_payload_json(PyNone)) EXCEPT !.state = state]
LegacyTables(v) ==
    IF v = 0 THEN {<<>>}
    ELSE {<<>>, <<LegacyRow(PENDING)>>, <<LegacyRow(COMPLETED), LegacyRow(PENDING)>>}
         \cup (IF v < 4 THEN {<<LegacyRow(DONE)>>, <<LegacyRow(DONE), LegacyRow(PENDING)>>}
               ELSE {})

\* the files such a database holds: none, or one file of its first item,
\* attached by add_file
LegacyFiles(tbl) ==
    {<<>>} \cup {Put(<<>>, <<1, name>>, Filepath(1, name)) : name \in
                    IF tbl = <<>> THEN {} ELSE {"notes"}}
\* the parents of its rows: none, or the second row is an output of the first
LegacyParents(tbl) ==
    {<<>>} \cup (IF Len(tbl) < 2 THEN {} ELSE {Put(<<>>, 2, Str(1))})

\* a database file at a version of 0..MaxVersion, its tables shaped by the
\* migrations up to that version, and no adapter
InitOpen ==
    /\ backend = "sqlite"
    /\ \E v \in 0..MaxVersion :
        /\ schema_version = 1..v
        /\ schema = 1..v
        /\ work_items \in LegacyTables(v)
    /\ work_item_files \in LegacyFiles(work_items)
    /\ filesystem = [path \in {work_item_files[key] : key \in DOMAIN work_item_files}
                        |-> Bytes("a", 1)]
    /\ parent_id \in LegacyParents(work_items)
    /\ nextId = Len(work_items)
    /\ opening = NotOpening
    /\ InitRest

\* adapters are constructed on the file, one after the other
NextOpen ==
    \/ open_create_version_table
    \/ open_detect
    \/ open_migrate

SpecOpen == InitOpen /\ [][NextOpen]_vars

\* the migrations current_version + 1 .. SCHEMA_VERSION in ascending order
Ascending(current_version) ==
    [i \in 1..(SCHEMA_VERSION - current_version) |-> current_version + i]

\* C29: _init_database on a database at version v of 0..4 does not fail, and
\* when it returns it has applied exactly the migrations v+1..4, each once and
\* in ascending order, and the database is at version 4; a later construction
\* on the same file applies none.
C29_MissingMigrationsInOrder ==
    /\ opening.pc = "failed" => opening.current_version > SCHEMA_VERSION
    /\ opening.pc = "open"
       => /\ opening.applied = Ascending(opening.current_version)
          /\ detect_schema_version(schema_version) = SCHEMA_VERSION
          /\ schema = 1..SCHEMA_VERSION
          /\ opening.opens > 1 => opening.applied = <<>>

\* a database at version 2 that holds a DONE row was opened: migrations 3 and
\* 4 ran and the row is COMPLETED
C29_Witness ==
    /\ opening.pc = "open" /\ opening.current_version = 2
    /\ opening.applied = <<3, 4>>
    /\ \E id \in DOMAIN work_items : work_items[id].state = COMPLETED

\* C30: on a database whose persisted version is greater than 4 no step of a
\* construction changes a table, and _init_database fails with
\* SchemaVersionMismatch, having applied no migration.
C30_NewerSchemaRefused ==
    [][detect_schema_version(schema_version) > SCHEMA_VERSION
        => /\ UNCHANGED <<schema_version, schema, store>>
           /\ opening.pc = "detect"
              => /\ opening'.pc = "failed"
                 /\ opening'.error = SchemaVersionMismatch
                 /\ opening'.applied = <<>>]_vars

\* ------------------------------------------------- migration to version 4
\* a turn of the loop of _init_database that applies _migrate_to_v4
MigratesToV4 ==
    /\ opening.pc = "migrate"
    /\ opening'.applied = Append(opening.applied, 4)

\* C31: _migrate_to_v4 keeps every row of work_items: the table holds the
\* same ids afterwards, each with the queue, parent, payload, timestamps and
\* exception fields it had, and with the state it had, except that DONE has
\* become COMPLETED.
C31_MigrationKeepsRows ==
    [][MigratesToV4
        => /\ DOMAIN work_items' = DOMAIN work_items
           /\ parent_id' = parent_id
           /\ \A id \in DOMAIN work_items :
                LET old == work_items[id]
                    new == work_items'[id]
                IN /\ new.queue_name = old.queue_name
                   /\ new.payload = old.payload
                   /\ new.created_at = old.created_at
                   /\ new.reserved_at = old.reserved_at
                   /\ new.released_at = old.released_at
                   /\ new.exception_type = old.exception_type
                   /\ new.exception_code = old.exception_code
                   /\ new.exception_message = old.exception_message
                   /\ new.state = IF old.state = DONE THEN COMPLETED ELSE old.state]_vars

\* a database of version 3 whose first row was DONE and whose second row is
\* an output of the first was opened: migration 4 ran and both rows are there
C31_Witness ==
    /\ opening.pc = "open" /\ opening.applied = <<4>>
    /\ DOMAIN work_items = {1, 2}
    /\ work_items[1].state = COMPLETED /\ work_items[2].state = PENDING
    /\ 2 \in DOMAIN parent_id /\ parent_id[2] = Str(1)

\* C32: _migrate_to_v4 keeps every row of work_item_files: for every item
\* the filenames list_files selects after the migration are those it
\* selected before.
C32_MigrationKeepsFiles ==
    [][MigratesToV4
        => \A id \in DOMAIN work_items :
            sqlite_select_filenames(work_item_files', id)
                = sqlite_select_filenames(work_item_files, id)]_vars


\* ------------------------------------------- the threshold of inline files
\* the calls of the caller that attaches files at the threshold
MaxInlineCalls == 4
\* contents one byte short of INLINE_FILE_THRESHOLD, of exactly that length
\* and one byte longer
ThresholdContents ==
    {Bytes("u", INLINE_FILE_THRESHOLD - 1), Bytes("e", INLINE_FILE_THRESHOLD),
     Bytes("o", INLINE_FILE_THRESHOLD + 1)}

\* one caller seeds items, attaches files of those contents and reads them
NextInline ==
    \/ Bounded(Caller, seed_input(Caller), MaxInlineCalls) /\ UNCHANGED scenario
    \/ Bounded(Caller, add_file(Caller, Ids, {"notes"}, ThresholdContents), MaxInlineCalls)
       /\ UNCHANGED scenario
    \/ Bounded(Caller, add_file_step(Caller), MaxInlineCalls) /\ UNCHANGED scenario
    \/ Bounded(Caller, get_file(Caller, Ids, {"notes"}), MaxInlineCalls)
       /\ UNCHANGED scenario

SpecInline == Init /\ [][NextInline]_vars

\* the field of the files hash of the item that add_file set for the name
StoredRef(id, name) == redis_files(redis_resolve_item_queue(id), id)[name]

\* C33: on Redis a file that add_file attached is stored inline, as base64
\* text in the files hash, exactly when its content is shorter than
\* INLINE_FILE_THRESHOLD; a content of the threshold length or longer is a
\* file of the filesystem and the hash holds a file:// reference to it.
C33_InlineBelowThreshold ==
    backend = "redis" =>
        \A key \in DOMAIN attached :
            LET content == attached[key]
                ref == StoredRef(key[1], key[2])
            IN IF content.len < 1000000
               THEN /\ ref.scheme = ""
                    /\ B64Decode(ref.text) = content
                    /\ Filepath(key[1], key[2]) \notin DOMAIN filesystem
               ELSE /\ ref.scheme = "file://"
                    /\ ref.path \in DOMAIN filesystem
                    /\ filesystem[ref.path] = content


\* ------------------------------------------------- the expiry of the keys
MaxExpireCalls == 4

\* one caller seeds, reserves and releases items, creates outputs with and
\* without a parent, saves payloads and attaches files, while time passes
NextExpire ==
    \/ Bounded(Caller, seed_input(Caller), MaxExpireCalls) /\ UNCHANGED scenario
    \/ Bounded(Caller, reserve_input(Caller), MaxExpireCalls) /\ UNCHANGED scenario
    \/ Bounded(Caller, release_input(Caller, ReturnedIds, DoneStates, ExceptionDicts),
               MaxExpireCalls) /\ UNCHANGED scenario
    \/ Bounded(Caller, create_output_parent(Caller, {Str(0), Str(1)}, NoPayload),
               MaxExpireCalls) /\ UNCHANGED scenario
    \/ Bounded(Caller, save_payload(Caller, Ids, {PyValue("dict", 1)}), MaxExpireCalls)
       /\ UNCHANGED scenario
    \/ Bounded(Caller, add_file(Caller, Ids, {"notes"}, {Bytes("a", 1)}), MaxExpireCalls)
       /\ UNCHANGED scenario
    \/ Bounded(Caller, add_file_step(Caller), MaxExpireCalls) /\ UNCHANGED scenario
    \/ Tick /\ UNCHANGED <<started, scenario>>

SpecExpire == Init /\ [][NextExpire]_vars

\* the keys {q}:{kind}:{id} of item id of queue q that exist in Redis
ItemKeys(q, id) ==
    {ExpireKey("payload", q, id) : x \in {k \in DOMAIN r_payload : k = Key(q, id)}}
    \cup {ExpireKey("timestamps", q, id) : x \in {k \in DOMAIN r_timestamps : k = Key(q, id)}}
    \cup {ExpireKey("parent", q, id) : x \in {k \in DOMAIN parent_id : k = id}}
    \cup {ExpireKey("files", q, id) : x \in DOMAIN redis_files(q, id)}
    \cup {ExpireKey("state", q, id) : x \in {k \in DOMAIN r_state : k = Key(q, id)}}
    \cup {ExpireKey("exception", q, id) : x \in {k \in DOMAIN r_exception : k = Key(q, id)}}

\* the key expires seven days after time t
ExpiresIn7Days(key, t) ==
    key \in DOMAIN r_expire /\ r_expire[key] = [at |-> t, seconds |-> 604800]

\* the keys of the item that was created expire in seven days
ExpiryOnCreation ==
    nextId' = nextId + 1 =>
        LET id == nextId
            q == redis_resolve_item_queue(id)
        IN (\A key \in ItemKeys(q, id) : ExpiresIn7Days(key, now))'

\* the keys of the item whose payload was saved expire in seven days
ExpiryOnSave ==
    \A id \in Ids :
        (/\ save_payload(Caller, {id}, {PyValue("dict", 1)})
         /\ result'[Caller].error = None)
        => LET q == redis_resolve_item_queue(id)
           IN \A key \in ItemKeys(q, id)' \ {ExpireKey("exception", q, id)} :
                ExpiresIn7Days(key, now)'

\* every key of every item has an expiry
EveryKeyExpires ==
    \A id \in 1..nextId :
        \A key \in ItemKeys(redis_resolve_item_queue(id), id) : key \in DOMAIN r_expire

\* C34: on Redis the keys of an item (payload, timestamps, parent, files)
\* expire seven days after seed_input or create_output created it; after a
\* save_payload call their expiry is seven days from that call; and no step
\* of any operation leaves a key of an item without an expiry.
C34_KeysExpire ==
    [][backend = "redis" => ExpiryOnCreation /\ ExpiryOnSave /\ EveryKeyExpires']_vars


\* ------------------------------------------- the place of an item in Redis
\* the structures of queue q that hold the id, each named by the state
\* that goes with it
PlacesOf(q, id) ==
    {PENDING : x \in {i \in Range(r_pending[q]) : i = id}}
    \cup {RESERVED : x \in {i \in Range(r_processing[q]) : i = id}}
    \cup {COMPLETED : x \in {i \in r_done[q] : i = id}}
    \cup {FAILED : x \in {i \in r_failed[q] : i = id}}

\* the queue an item was created in: the output queue for an id that
\* create_output returned, the input queue for the others
CreatedIn(id) == IF id \in outputs THEN output_queue_name ELSE queue_name

MaxPlaceCalls == 5

\* one caller seeds, reserves, releases and recovers, one call at a time;
\* it releases items that exist, in any state, as COMPLETED or FAILED
NextPlace ==
    \/ Bounded(Caller, seed_input(Caller), MaxPlaceCalls) /\ UNCHANGED scenario
    \/ Bounded(Caller, reserve_input(Caller), MaxPlaceCalls) /\ UNCHANGED scenario
    \/ Bounded(Caller, release_input(Caller, 1..nextId, DoneStates, {ExcFull}),
               MaxPlaceCalls) /\ UNCHANGED scenario
    \/ Bounded(Caller, recover_orphaned_work_items(Caller), MaxPlaceCalls)
       /\ UNCHANGED scenario
    \/ Tick /\ UNCHANGED <<started, scenario>>

SpecPlace == Init /\ [][NextPlace]_vars

\* C35: on Redis, whenever no call is in progress, every item is in exactly
\* one of the pending list, the processing list, the done set and the failed
\* set of its queue, and the state field of its payload hash is the state of
\* that place: PENDING, RESERVED, COMPLETED or FAILED.
C35_OnePlacePerItem ==
    (backend = "redis" /\ \A w \in Workers : pc[w] = "idle")
    => \A id \in 1..nextId :
        /\ Cardinality(PlacesOf(CreatedIn(id), id)) = 1
        /\ PlacesOf(CreatedIn(id), id) = {r_payload[Key(CreatedIn(id), id)].state}


\* C36: on Redis, in every state of every interleaving of recovery, reserve
\* and release calls, an id occurs at most once in the pending list and the
\* processing list of the queue taken together.
C36_OnceInTheLists ==
    backend = "redis" =>
        \A id \in Ids :
            Occurrences(r_pending[queue_name] \o r_processing[queue_name], id) <= 1


\* -------------------------------------------- recovery and other queues
MaxForeignCalls == 4

\* one caller seeds, reserves, creates outputs and recovers, while adapters
\* configured for the output queue and for an unrelated queue create and
\* reserve items in the same database and time passes
NextForeign ==
    \/ Bounded(Caller, seed_input(Caller), MaxForeignCalls) /\ UNCHANGED scenario
    \/ Bounded(Caller, reserve_input(Caller), MaxForeignCalls) /\ UNCHANGED scenario
    \/ Bounded(Caller, create_output(Caller, NoPayload), MaxForeignCalls)
       /\ UNCHANGED scenario
    \/ Bounded(Caller, recover_orphaned_work_items(Caller), MaxForeignCalls)
       /\ UNCHANGED scenario
    \/ ForeignCreate /\ UNCHANGED <<started, scenario>>
    \/ \E q \in {output_queue_name, foreign_queue_name} :
            ForeignReserve(q) /\ UNCHANGED <<started, scenario>>
    \/ Tick /\ UNCHANGED <<started, scenario>>

SpecForeign == Init /\ [][NextForeign]_vars

\* C37: no step of a recover_orphaned_work_items call of the adapter of
\* queue Q changes anything of an item of another queue of the same
\* database (Q_output or an unrelated queue), and the list the call returns
\* holds no id of such an item.
C37_RecoveryKeepsToItsQueue ==
    [][recover_orphaned_work_items(Caller)
        => \A q \in StoredQueues \ {queue_name} :
            \A id \in 1..nextId :
                InQueue(q, id)
                => /\ ItemRecord(q, id)' = ItemRecord(q, id)
                   /\ pc'[Caller] = "idle" => id \notin Range(recovered')]_vars


\* --------------------------------------------------- seeding with files
MaxSeedCalls == 3
\* the files arguments of the model: two files that add_file takes, and a
\* file that it takes followed by one whose name it refuses
SeedFileLists ==
    {<<SeedFile("notes", Bytes("a", 1)), SeedFile("memo", Bytes("b", 1))>>,
     <<SeedFile("notes", Bytes("a", 1)), SeedFile("dir/x", Bytes("b", 1))>>}

\* seed_input(payload, files=files), its files drawn from the set
seed_input_files(w, lists) ==
    \E files \in lists :
        \/ docdb_seed_input_files(w, files)
        \/ redis_seed_input_files(w, files)

\* the turns of the loop of seed_input over its files
seed_files_step(w) == docdb_seed_add_file(w) \/ redis_seed_add_file(w)
seed_labels == {"docdb_seed_add_file", "redis_seed_add_file"}

\* workers seed items with and without files and reserve items, in every
\* interleaving
NextSeed ==
    \/ \E w \in Workers : Bounded(w, seed_input_files(w, SeedFileLists), MaxSeedCalls)
                          /\ UNCHANGED scenario
    \/ \E w \in Workers : Bounded(w, seed_files_step(w), MaxSeedCalls) /\ UNCHANGED scenario
    \/ \E w \in Workers : Bounded(w, seed_input(w), MaxSeedCalls) /\ UNCHANGED scenario
    \/ \E w \in Workers : Bounded(w, reserve_input(w), MaxSeedCalls) /\ UNCHANGED scenario

SpecSeed == Init /\ [][NextSeed]_vars

\* C38: while a seed_input call with files is attaching its files, no
\* reserve_input call has returned the item; and when the call ends with the
\* exception of an add_file, the item is not PENDING in the queue.
C38_SeededWithAllFiles ==
    [][\A w \in Workers :
        /\ pc'[w] \in seed_labels => loc'[w].id \notin Range(returned')
        /\ \A id \in Ids :
            (/\ pc[w] \in seed_labels /\ loc[w].id = id
             /\ pc'[w] = "idle" /\ result'[w].error # None)
            => ~PendingIn(queue_name, id)']_vars

\* ---- C39
MaxBlobCalls == 4
\* one content that is stored inline and one that is stored out-of-band
BlobContents == {Bytes("a", 1), Bytes("c", INLINE_FILE_THRESHOLD + 1)}
\* the ids of the calls: the first item and an id that names no item
BlobIds == {1, UnknownId}

\* the objects of the external storage: the files under files_dir, the
\* objects of GridFS
Blobs == IF backend = "docdb" THEN DOMAIN gridfs ELSE DOMAIN filesystem

\* the file mappings that are references, each with the item that owns it
\* and the blob it names: the rows of work_item_files, the dicts with a
\* gridfs_id of the documents, the file:// values of the files hashes
BlobRefs ==
    CASE backend = "sqlite" ->
            {[queue |-> None, id |-> key[1], name |-> key[2],
              blob |-> work_item_files[key]] : key \in DOMAIN work_item_files}
      [] backend = "docdb" ->
            UNION {UNION {{[queue |-> q, id |-> id, name |-> path,
                            blob |-> collections[q][id].files[path].gridfs_id] :
                                path \in {x \in DOMAIN collections[q][id].files :
                                            collections[q][id].files[x].type = "dict"}} :
                            id \in DOMAIN collections[q]} : q \in DOMAIN collections}
      [] backend = "redis" ->
            UNION {{[queue |-> key[1], id |-> key[2], name |-> name,
                     blob |-> r_files[key][name].path] :
                        name \in {x \in DOMAIN r_files[key] :
                                    r_files[key][x].scheme = "file://"}} :
                    key \in DOMAIN r_files}

\* the item of a file mapping exists
OwnerExists(ref) ==
    CASE backend = "sqlite" -> ref.id \in DOMAIN work_items
      [] OTHER -> InQueue(ref.queue, ref.id)

\* workers seed items, attach files to them and remove files, their calls in
\* every interleaving
NextBlobs ==
    \/ Bounded(Caller, seed_input(Caller), MaxBlobCalls) /\ UNCHANGED scenario
    \/ \E w \in Workers :
        Bounded(w, add_file(w, BlobIds, {"notes"}, BlobContents), MaxBlobCalls)
        /\ UNCHANGED scenario
    \/ \E w \in Workers : Bounded(w, add_file_step(w), MaxBlobCalls) /\ UNCHANGED scenario
    \/ \E w \in Workers :
        Bounded(w, remove_file(w, BlobIds, {"notes"}), MaxBlobCalls) /\ UNCHANGED scenario

SpecBlobs == Init /\ [][NextBlobs]_vars

\* C39: when the add_file and remove_file calls are over, every blob of the
\* external storage is named by exactly one file mapping, the item of that
\* mapping exists, and every file mapping that is a reference names a blob
\* that exists.
C39_BlobsAndReferences ==
    Quiescent =>
        /\ \A blob \in Blobs :
            Cardinality({ref \in BlobRefs : ref.blob = blob}) = 1
        /\ \A ref \in BlobRefs : ref.blob \in Blobs /\ OwnerExists(ref)

\* ---- C40
MaxLockCalls == 4
\* the ids of the save_payload calls: the first item and an id that names no item
LockIds == {1, UnknownId}

\* workers seed items, save payloads, reserve and release, their calls in every
\* interleaving
NextLock ==
    \/ Bounded(Caller, seed_input(Caller), MaxLockCalls) /\ UNCHANGED scenario
    \/ \E w \in Workers :
        Bounded(w, save_payload(w, LockIds, {PyValue("dict", 1)}), MaxLockCalls)
        /\ UNCHANGED scenario
    \/ \E w \in Workers : Bounded(w, reserve_input(w), MaxLockCalls) /\ UNCHANGED scenario
    \/ \E w \in Workers :
        Bounded(w, release_input(w, ReturnedIds, DoneStates, {ExcFull}), MaxLockCalls)
        /\ UNCHANGED scenario

SpecLock == Init /\ [][NextLock]_vars

\* C40: on SQLite a worker that is in no call has no write transaction open on
\* its connection, and no reserve_input or release_input call ended with the
\* error of a database that is locked.
C40_NoOpenTransaction ==
    backend = "sqlite" =>
        \A w \in Workers :
            /\ pc[w] = "idle" => ~in_transaction[w]
            /\ result[w].op \in {"reserve_input", "release_input"}
                => result[w].error \notin {DatabaseTemporarilyUnavailable, DatabaseLocked}

====
